---- MODULE Spec2Model ----
(***************************************************************************)
(* Arducom master: the execute engine of ArducomMaster (send once, poll    *)
(* with bounded retries), its reply parser and the System V semaphore that *)
(* serialises the transactions of master processes sharing one bus.        *)
(*                                                                         *)
(* Every master process owns one ArducomMaster object.  A transaction is   *)
(* one call of ArducomMaster::execute; it is split into steps at the       *)
(* points where the process blocks in the kernel (semaphore operation,     *)
(* write, read), so that the steps of different processes interleave.      *)
(***************************************************************************)
EXTENDS Integers, Sequences, FiniteSets, TLC

(***************************************************************************)
(* Bounds of the model                                                     *)
(***************************************************************************)
NumMasters == 2
MaxRetries == 2
\* the sketch registers at most MaxCommands commands; short payloads have up to
\* MaxShort bytes
MaxCommands == 2
MaxShort == 2
\* the bytes of a long request arrive in bursts of BurstSize
BurstSize == 8
\* reads of the master between two of its requests
MaxRequests == 2

Masters == 1..NumMasters

(***************************************************************************)
(* Program constants (slave/lib/Arducom/Arducom.h)                         *)
(***************************************************************************)
ARDUCOM_OK == 0
ARDUCOM_COMMAND_HANDLED == 1
ARDUCOM_COMMAND_ALREADY_EXISTS == 2
ARDUCOM_COMMANDCODE_INVALID == 3
ARDUCOM_TIMEOUT == 4
ARDUCOM_OVERFLOW == 6
ARDUCOM_COMMAND_ERROR == 7
ARDUCOM_NO_COMMAND == 9
ARDUCOM_INVALID_REPLY == 10
ARDUCOM_INVALID_RESPONSE == 11
ARDUCOM_PAYLOAD_TOO_LONG == 12
ARDUCOM_TRANSPORT_ERROR == 13
ARDUCOM_NO_DATA == 128
ARDUCOM_COMMAND_UNKNOWN == 129
ARDUCOM_TOO_MUCH_DATA == 130
ARDUCOM_PARAMETER_MISMATCH == 131
ARDUCOM_BUFFER_OVERRUN == 132
ARDUCOM_CHECKSUM_ERROR == 133
ARDUCOM_LIMIT_EXCEEDED == 134
ARDUCOM_FUNCTION_ERROR == 254
ARDUCOM_ERROR_CODE == 255
ARDUCOM_BUFFERSIZE == 32
SERIAL_BLOCKSIZE_LIMIT == 32
\* slave/lib/Arducom/ArducomFTP.h
ARDUCOM_FTP_NOT_INITIALIZED == 4
\* slave/lib/Arducom/Arducom.h: flags of the version command, shutdown
\* sentinel, Arducom::VERSION
ARDUCOM_FLAG_ENABLEDEBUG == 1
ARDUCOM_FLAG_INFINITELOOP == 64
ARDUCOM_FLAG_SOFTRESET == 128
ARDUCOM_SHUTDOWN == 44510
VERSION == 1

(***************************************************************************)
(* The environment of a master process                                     *)
(***************************************************************************)
\* getSemkey(): the key derived from the endpoint; the masters share a bus,
\* hence the endpoint and the key.
TransportSemkey == 1

\* keys of the semaphores that exist in the system (semget maps a key to an id;
\* the model identifies a semaphore's id with its key)
SemKeys == {1, 2}

\* values of parameters.semkey (-k): default -1, 0 disables, or an override
SemkeyArgs == {-1, 0} \cup SemKeys

\* the command code and checksum setting of each process (-c, -n)
Command(p) == p
UseChecksum(p) == p % 2 = 1

\* the number of expected bytes passed to execute (getDefaultExpectedBytes)
Expected == SERIAL_BLOCKSIZE_LIMIT

VARIABLES
    \* the shared System V semaphores: semaphore value by key
    sem,
    \* fields of the ArducomMaster object of each process
    semkey, semid, hasLock, lastError, lastCommand,
    \* the running execute call: position, parameters, loop counter, outputs
    pc, par, retries, exc, result, size,
    \* observation of the running call, kept for the properties
    sendCalls, requestCalls, doneCalls, nNoData, nTimeout, outcome,
    semgets, incs, decs,
    \* the key of the semaphore this object has incremented and not yet
    \* decremented, 0 when there is none (kept for the properties)
    lockedKey,
    \* the caller's variables behind the pointers errorInfo and destBuffer (the
    \* bytes the running call has stored in destBuffer)
    errorInfo, destBuffer,
    \* observation: the size argument of the last call of sendBytes (-1: none),
    \* the bytes the slave has sent in answer to the last poll
    frameSize, reply

objVars == <<semkey, semid, hasLock, lastError, lastCommand>>
callVars == <<pc, par, retries, exc, result, size>>
ioObs == <<sendCalls, requestCalls, nNoData, nTimeout, outcome>>
semObs == <<semgets, incs, decs, lockedKey>>
callerVars == <<errorInfo, destBuffer, frameSize, reply>>
masterVars == <<sem, objVars, callVars, ioObs, doneCalls, semObs, callerVars>>

(***************************************************************************)
(* The slave: registry, stream transport and dispatcher                    *)
(* (slave/lib/Arducom/Arducom.cpp)                                         *)
(***************************************************************************)
VARIABLES
    \* Arducom::list, the linked list of commands, head first
    list,
    \* ArducomTransport::status and the valid bytes of ArducomTransport::data
    \* (ArducomTransport::size is the length of data)
    status, data,
    \* Arducom::lastDataSize, Arducom::lastReceiveTime (0, or 1 for a time stamp)
    lastDataSize, lastReceiveTime,
    \* the bytes the Stream has available, and the bytes still on the line
    stream, wire,
    \* observation: the request on its way, the frames written by send() and
    \* the calls of handle() since it was fed, the last return values of
    \* doWork and addCommand
    frame, written, handled, doWorkResult, addResult

streamVars == <<list, status, data, lastDataSize, lastReceiveTime, stream, wire,
                frame, written, handled, doWorkResult, addResult>>

(***************************************************************************)
(* The slave: the version command (ArducomVersionCommand, Arducom::setFlags)*)
(***************************************************************************)
VARIABLES
    \* ArducomVersionCommand::shutdownHook is not NULL
    shutdownHook,
    \* Arducom::debug is not 0 (the sketch has given a debugPrint)
    debug,
    \* the controller: "running", "loop" (in the infinite loop of setFlags) or
    \* "reset" (waiting in setFlags for the watchdog to reset it)
    mcu,
    \* observation: the last call of ArducomVersionCommand::handle
    versionCall

versionVars == <<shutdownHook, debug, mcu, versionCall>>

(***************************************************************************)
(* calculateChecksum called on its own                                     *)
(***************************************************************************)
VARIABLES
    \* the arguments of the last call of calculateChecksum, the value of sum
    \* at the end of the loop and the value returned, in the master and in
    \* the slave
    calc

sketchVars == <<versionVars, calc>>

(***************************************************************************)
(* The slave: the hardware I2C transport                                   *)
(***************************************************************************)
VARIABLES
    \* the ArducomHardwareI2C object the interrupt routines work on: status,
    \* the whole data array, and size
    hardwareI2C,
    \* the main loop inside ArducomHardwareI2C::send: the statement it is at,
    \* the buffer it was given, and the loop counter i
    i2cSend,
    \* what requestEvent has handed to Wire.write since the last request of
    \* the master, one entry for each read of the master
    bus

i2cVars == <<hardwareI2C, i2cSend, bus>>

(***************************************************************************)
(* The slave: the Ethernet transport                                       *)
(***************************************************************************)
VARIABLES
    \* the ArducomTransportEthernet object: status, the whole data array, and
    \* size; the bytes its client has available are the variable stream
    ethernet,
    \* the highest index of data the transport has written a received byte to
    topIndex

ethVars == <<ethernet, topIndex>>

transportVars == <<i2cVars, ethVars>>

slaveVars == <<streamVars, sketchVars, transportVars>>

\* the transport after its constructor: reset(); no byte of data is read
\* before it has been written
NewTransport ==
    [status |-> "NO_DATA", data |-> [i \in 1..ARDUCOM_BUFFERSIZE |-> 0], size |-> 0]

\* the main loop is not inside send
NoSend == [pc |-> "idle", buffer |-> <<>>, i |-> 0]


vars == <<masterVars, slaveVars>>

\* no call of ArducomVersionCommand::handle yet
NoCall == [payload |-> <<>>, hooked |-> FALSE, returned |-> FALSE, reply |-> <<>>]

\* no call of calculateChecksum yet
NoCalc == [commandByte |-> 0, code |-> 0, bytes |-> <<>>, called |-> FALSE,
           sum |-> 0, slaveSum |-> 0, master |-> 0, slave |-> 0]

\* the arguments of execute: parameters.retries, parameters.semkey, close,
\* expected, *size (the number of payload bytes to send)
NoPar == [retries |-> 0, semkey |-> -1, close |-> TRUE, expected |-> Expected,
          size |-> 0]

(***************************************************************************)
(* Frame codec                                                             *)
(***************************************************************************)
\* the running sum of calculateChecksum with end-around carry
RECURSIVE ChecksumSum(_, _)
ChecksumSum(sum, bytes) ==
    IF bytes = <<>> THEN sum
    ELSE LET s == sum + Head(bytes)
         IN  ChecksumSum(IF s > 255 THEN (s % 256) + 1 ELSE s, Tail(bytes))

\* mutant of calculateChecksum: the two's complement of the sum is returned
calculateChecksum_TwosComplement(commandByte, code, bytes) ==
    LET s0 == commandByte + code
        s1 == IF s0 > 255 THEN (s0 % 256) + 1 ELSE s0
    IN  (256 - (ChecksumSum(s1, bytes) % 256)) % 256

calculateChecksum(commandByte, code, bytes) ==
    LET s0 == commandByte + code
        s1 == IF s0 > 255 THEN (s0 % 256) + 1 ELSE s0
    IN  255 - (ChecksumSum(s1, bytes) % 256)

\* the slave's calculateChecksum (static, Arducom.cpp)
RECURSIVE SlaveChecksumSum(_, _)
SlaveChecksumSum(sum, bytes) ==
    IF bytes = <<>> THEN sum
    ELSE LET s == sum + Head(bytes)
         IN  SlaveChecksumSum(IF s > 255 THEN (s % 256) + 1 ELSE s, Tail(bytes))

\* mutant of SlaveChecksum: the carry is dropped
SlaveChecksum_NoCarry(commandByte, code, bytes) ==
    LET s0 == commandByte + code
        s1 == IF s0 > 255 THEN s0 % 256 ELSE s0
    IN  255 - (SlaveChecksumSum(s1, bytes) % 256)

SlaveChecksum(commandByte, code, bytes) ==
    LET s0 == commandByte + code
        s1 == IF s0 > 255 THEN (s0 % 256) + 1 ELSE s0
    IN  255 - (SlaveChecksumSum(s1, bytes) % 256)

\* the value of sum when the loop of calculateChecksum ends, in the master
\* and in the slave
ChecksumRunning(commandByte, code, bytes) ==
    LET s0 == commandByte + code
        s1 == IF s0 > 255 THEN (s0 % 256) + 1 ELSE s0
    IN  ChecksumSum(s1, bytes)

SlaveChecksumRunning(commandByte, code, bytes) ==
    LET s0 == commandByte + code
        s1 == IF s0 > 255 THEN (s0 % 256) + 1 ELSE s0
    IN  SlaveChecksumSum(s1, bytes)

\* mutant of SuccessReply: the code byte never carries the checksum flag
SuccessReply_NoFlag(command, payload, checksum) ==
    LET lead == command + 128
        code == Len(payload)
    IN  IF checksum
        THEN <<lead, code, SlaveChecksum(lead, code, payload)>> \o payload
        ELSE <<lead, code>> \o payload

\* a success reply as the slave builds it: command code | 0x80, payload length
\* (six bits) with the checksum flag, the checksum if flagged, the payload
SuccessReply(command, payload, checksum) ==
    LET lead == command + 128
        code == (Len(payload) % 64) + (IF checksum THEN 128 ELSE 0)
    IN  IF checksum
        THEN <<lead, code, SlaveChecksum(lead, code, payload)>> \o payload
        ELSE <<lead, code>> \o payload

\* mutant of ErrorReply: the error frame carries a checksum byte
ErrorReply_Checksummed(kind, info) ==
    <<ARDUCOM_ERROR_CODE, kind, SlaveChecksum(ARDUCOM_ERROR_CODE, kind, <<info>>), info>>

\* an error reply: always three bytes, not checksummed
ErrorReply(kind, info) == <<ARDUCOM_ERROR_CODE, kind, info>>

(***************************************************************************)
(* ArducomMaster::receive                                                  *)
(***************************************************************************)
\* the transport's receive buffer is zero-filled before a request
BufferAt(buf, pos) == IF pos < Len(buf) THEN buf[pos + 1] ELSE 0

Min(a, b) == IF a < b THEN a ELSE b
Max(a, b) == IF a > b THEN a ELSE b

\* ArducomMasterTransportSerial::request and ArducomMasterTransportTCPIP::request
\* (the same code): of the bytes the slave has sent, those that are read into
\* the buffer: the first byte; with expectedBytes > 1 the error code (and the
\* info byte with expectedBytes > 2) of an error reply, or the code byte and
\* what follows it up to position expectedBytes or the end of the frame
request(bytes, expectedBytes) ==
    LET code == BufferAt(bytes, 1)
        length == code % 64
        hdr == IF code >= 128 THEN 3 ELSE 2
        pos == IF expectedBytes <= 1 THEN 1
               ELSE IF BufferAt(bytes, 0) = ARDUCOM_ERROR_CODE
               THEN (IF expectedBytes > 2 THEN 3 ELSE 2)
               ELSE Max(2, Min(expectedBytes, length + hdr))
    IN  SubSeq(bytes, 1, Min(pos, Len(bytes)))

\* the payload bytes receive copies to destBuffer: n bytes after the header
Payload(buf, hdr, n) == [i \in 1..n |-> BufferAt(buf, hdr + i - 1)]

\* the size argument sendBytes gets for a payload of n bytes (uint8_t)
FrameSize(n, checksum) == (n + (IF checksum THEN 3 ELSE 2)) % 256

Thrown(name, err) ==
    [thrown |-> name, result |-> -1, lastError |-> err, size |-> 0, errInfo |-> 0]
Returned(code, err, n, info) ==
    [thrown |-> "none", result |-> code, lastError |-> err, size |-> n, errInfo |-> info]

\* mutant of ReplyLead: the reply to the next command code is taken for the
\* reply to the command sent
ReplyLead_NextCommand(lastCmd) == lastCmd + 129

\* the lead byte of a success reply to the last command: lastCommand | 0x80
ReplyLead(lastCmd) == lastCmd + 128

\* mutant of receive: a TimeoutException is treated like any other exception
receive_TimeoutThrows(o, lastCmd, expected, useChecksum) ==
    IF o.kind \in {"timeout", "exception"}
    THEN Thrown("transport", ARDUCOM_TRANSPORT_ERROR)
    ELSE Returned(BufferAt(o.bytes, 1), BufferAt(o.bytes, 1), 0, 0)

\* o: what transport.request does: a TimeoutException, a generic exception, or
\* the reply bytes it puts into the buffer
receive(o, lastCmd, expected, useChecksum) ==
    IF lastCmd > 127 THEN Thrown("no_command", ARDUCOM_NO_COMMAND)
    ELSE IF o.kind = "timeout" THEN Returned(ARDUCOM_NO_DATA, ARDUCOM_TIMEOUT, 0, 0)
    ELSE IF o.kind = "exception" THEN Thrown("transport", ARDUCOM_TRANSPORT_ERROR)
    ELSE
    LET buf == o.bytes
        resultCode == BufferAt(buf, 0)
    IN
    IF resultCode = ARDUCOM_ERROR_CODE
    THEN Returned(BufferAt(buf, 1), BufferAt(buf, 1), 0, BufferAt(buf, 2))
    ELSE IF resultCode = 0 THEN Thrown("invalid_reply", ARDUCOM_INVALID_REPLY)
    ELSE IF resultCode # ReplyLead(lastCmd)
    THEN Thrown("invalid_response", ARDUCOM_INVALID_RESPONSE)
    ELSE
    LET code == BufferAt(buf, 1)
        length == code % 64
        checksum == code >= 128
        hdr == IF checksum THEN 3 ELSE 2
        n == Min(expected, length)
        dest == Payload(buf, hdr, n)
    IN
    IF checksum # useChecksum THEN Thrown("checksum_flag_mismatch", ARDUCOM_OK)
    ELSE IF length > ARDUCOM_BUFFERSIZE
    THEN Thrown("payload_too_long", ARDUCOM_PAYLOAD_TOO_LONG)
    \* readByte refuses positions beyond the block size
    ELSE IF n > 0 /\ hdr + n - 1 >= SERIAL_BLOCKSIZE_LIMIT
    THEN Thrown("transport", ARDUCOM_TRANSPORT_ERROR)
    ELSE IF checksum /\ calculateChecksum(resultCode, code, dest) # BufferAt(buf, 2)
    THEN Returned(ARDUCOM_CHECKSUM_ERROR, ARDUCOM_CHECKSUM_ERROR, n,
                  calculateChecksum(resultCode, code, dest))
    ELSE Returned(ARDUCOM_OK, ARDUCOM_OK, n, 0)

\* what the slave and the transport can do at one poll of process p
Replies(p) ==
    { ErrorReply(ARDUCOM_NO_DATA, 0),
      ErrorReply(ARDUCOM_COMMAND_UNKNOWN, Command(p)),
      ErrorReply(ARDUCOM_TOO_MUCH_DATA, 1),
      ErrorReply(ARDUCOM_PARAMETER_MISMATCH, 2),
      ErrorReply(ARDUCOM_BUFFER_OVERRUN, 32),
      ErrorReply(ARDUCOM_CHECKSUM_ERROR, 9),
      ErrorReply(ARDUCOM_LIMIT_EXCEEDED, 3),
      ErrorReply(ARDUCOM_FUNCTION_ERROR, 7),
      ErrorReply(77, 1),
      SuccessReply(Command(p), <<>>, UseChecksum(p)),
      SuccessReply(Command(p), <<5, 250>>, UseChecksum(p)),
      SuccessReply(Command(p), <<>>, ~UseChecksum(p)),
      SuccessReply(Command(p) + 1, <<>>, UseChecksum(p)),
      <<Command(p) + 128, 128 + 1, 0, 5>>,
      SuccessReply(Command(p), [i \in 1..(SERIAL_BLOCKSIZE_LIMIT - 2) |-> i], UseChecksum(p)),
      <<0>> }

RequestOutcomes(p) ==
    { [kind |-> "timeout", bytes |-> <<>>], [kind |-> "exception", bytes |-> <<>>] }
    \cup { [kind |-> "reply", bytes |-> b] : b \in Replies(p) }

(***************************************************************************)
(* Initial state: ArducomMaster::ArducomMaster, semaphores at 0            *)
(***************************************************************************)
Init ==
    /\ sem = [k \in SemKeys |-> 0]
    /\ semkey = [p \in Masters |-> 0]
    /\ semid = [p \in Masters |-> 0]
    /\ hasLock = [p \in Masters |-> FALSE]
    /\ lastError = [p \in Masters |-> 0]
    /\ lastCommand = [p \in Masters |-> 255]
    /\ pc = [p \in Masters |-> "idle"]
    /\ par = [p \in Masters |-> NoPar]
    /\ retries = [p \in Masters |-> 0]
    /\ exc = [p \in Masters |-> "none"]
    /\ result = [p \in Masters |-> -1]
    /\ size = [p \in Masters |-> 0]
    /\ sendCalls = [p \in Masters |-> 0]
    /\ requestCalls = [p \in Masters |-> 0]
    /\ doneCalls = [p \in Masters |-> 0]
    /\ nNoData = [p \in Masters |-> 0]
    /\ nTimeout = [p \in Masters |-> 0]
    /\ outcome = [p \in Masters |-> "none"]
    /\ semgets = [p \in Masters |-> 0]
    /\ incs = [p \in Masters |-> 0]
    /\ decs = [p \in Masters |-> 0]
    /\ lockedKey = [p \in Masters |-> 0]
    /\ errorInfo = [p \in Masters |-> 0]
    /\ destBuffer = [p \in Masters |-> <<>>]
    /\ frameSize = [p \in Masters |-> -1]
    /\ reply = [p \in Masters |-> <<>>]
    /\ list = <<>>
    /\ status = "NO_DATA"
    /\ data = <<>>
    /\ lastDataSize = -1
    /\ lastReceiveTime = 0
    /\ stream = <<>>
    /\ wire = <<>>
    /\ frame = [command |-> -1, payload |-> <<>>, checksum |-> FALSE, byte |-> 0,
                bit |-> 0, bytes |-> <<>>]
    /\ written = <<>>
    /\ handled = <<>>
    /\ doWorkResult = ARDUCOM_OK
    /\ addResult = ARDUCOM_OK
    /\ shutdownHook = FALSE
    /\ debug = TRUE
    /\ mcu = "running"
    /\ versionCall = NoCall
    /\ calc = NoCalc
    /\ hardwareI2C = NewTransport
    /\ i2cSend = NoSend
    /\ bus = <<>>
    /\ ethernet = NewTransport
    /\ topIndex = -1

(***************************************************************************)
(* ArducomMaster::execute, entry: resolve the semaphore key                *)
(***************************************************************************)
\* mutant of ResolveSemkey: 0 is taken for "not given" too
ResolveSemkey_ZeroIsDefault(parSemkey) ==
    IF parSemkey <= 0 THEN TransportSemkey ELSE parSemkey

ResolveSemkey(parSemkey) ==
    IF parSemkey < 0 THEN TransportSemkey ELSE parSemkey

\* a call with expected = e and a payload of n bytes
ExecuteWith(p, r, k, c, e, n) ==
    /\ pc[p] = "idle"
    /\ par' = [par EXCEPT ![p] = [retries |-> r, semkey |-> k, close |-> c,
                                  expected |-> e, size |-> n]]
    /\ semkey' = [semkey EXCEPT ![p] = ResolveSemkey(k)]
    /\ pc' = [pc EXCEPT ![p] = "lock"]
    /\ UNCHANGED <<sem, semid, hasLock, lastError, lastCommand>>
    /\ UNCHANGED <<retries, exc, result, size>>
    /\ UNCHANGED <<ioObs, doneCalls, semObs>>
    /\ UNCHANGED callerVars
    /\ UNCHANGED slaveVars

\* a call without payload that expects the transport's default number of bytes
Execute(p, r, k, c) == ExecuteWith(p, r, k, c, Expected, 0)

Raise(p, name) ==
    /\ exc' = [exc EXCEPT ![p] = name]
    /\ pc' = [pc EXCEPT ![p] = "catch"]

(***************************************************************************)
(* ArducomMaster::lock                                                     *)
(***************************************************************************)
\* semkey == 0: locking is disabled, lock() returns at once
LockDisabled(p) ==
    /\ pc[p] = "lock"
    /\ semkey[p] = 0
    /\ pc' = [pc EXCEPT ![p] = "send"]
    /\ UNCHANGED <<sem, objVars, par, retries, exc, result, size>>
    /\ UNCHANGED <<ioObs, doneCalls, semObs>>
    /\ UNCHANGED callerVars
    /\ UNCHANGED slaveVars

\* semget fails: semid < 0, system error
LockSemgetFails(p) ==
    /\ pc[p] = "lock"
    /\ semkey[p] # 0
    /\ semid' = [semid EXCEPT ![p] = -1]
    /\ semgets' = [semgets EXCEPT ![p] = @ + 1]
    /\ Raise(p, "semget")
    /\ UNCHANGED <<sem, semkey, hasLock, lastError, lastCommand>>
    /\ UNCHANGED <<par, retries, result, size, ioObs, doneCalls, incs, decs, lockedKey>>
    /\ UNCHANGED callerVars
    /\ UNCHANGED slaveVars

\* the object already holds a lock: programming error
LockTwice(p) ==
    /\ pc[p] = "lock"
    /\ semkey[p] # 0
    /\ hasLock[p]
    /\ semid' = [semid EXCEPT ![p] = semkey[p]]
    /\ semgets' = [semgets EXCEPT ![p] = @ + 1]
    /\ Raise(p, "programming_error")
    /\ UNCHANGED <<sem, semkey, hasLock, lastError, lastCommand>>
    /\ UNCHANGED <<par, retries, result, size, ioObs, doneCalls, incs, decs, lockedKey>>
    /\ UNCHANGED callerVars
    /\ UNCHANGED slaveVars

\* mutant of SemAvailable: the increment does not wait for zero
SemAvailable_NoWait(k) == TRUE

\* semtimedop {wait for zero, increment with SEM_UNDO} is one atomic operation
SemAvailable(k) == sem[k] = 0

\* mutant of LockAcquire: no check of hasLock before the increment
LockAcquire_NoHolderCheck(p) ==
    /\ pc[p] = "lock"
    /\ semkey[p] # 0
    /\ SemAvailable(semkey[p])
    /\ semid' = [semid EXCEPT ![p] = semkey[p]]
    /\ sem' = [sem EXCEPT ![semkey[p]] = @ + 1]
    /\ hasLock' = [hasLock EXCEPT ![p] = TRUE]
    /\ semgets' = [semgets EXCEPT ![p] = @ + 1]
    /\ incs' = [incs EXCEPT ![p] = @ + 1]
    /\ lockedKey' = [lockedKey EXCEPT ![p] = semkey[p]]
    /\ pc' = [pc EXCEPT ![p] = "send"]
    /\ UNCHANGED <<semkey, lastError, lastCommand>>
    /\ UNCHANGED <<par, retries, exc, result, size, ioObs, doneCalls, decs>>
    /\ UNCHANGED callerVars
    /\ UNCHANGED slaveVars

LockAcquire(p) ==
    /\ pc[p] = "lock"
    /\ semkey[p] # 0
    /\ ~hasLock[p]
    /\ SemAvailable(semkey[p])
    /\ semid' = [semid EXCEPT ![p] = semkey[p]]
    /\ sem' = [sem EXCEPT ![semkey[p]] = @ + 1]
    /\ hasLock' = [hasLock EXCEPT ![p] = TRUE]
    /\ semgets' = [semgets EXCEPT ![p] = @ + 1]
    /\ incs' = [incs EXCEPT ![p] = @ + 1]
    /\ lockedKey' = [lockedKey EXCEPT ![p] = semkey[p]]
    /\ pc' = [pc EXCEPT ![p] = "send"]
    /\ UNCHANGED <<semkey, lastError, lastCommand>>
    /\ UNCHANGED <<par, retries, exc, result, size, ioObs, doneCalls, decs>>
    /\ UNCHANGED callerVars
    /\ UNCHANGED slaveVars

\* mutant of LockFails: the failure of semtimedop is ignored
LockFails_Ignored(p, timedOut) ==
    /\ pc[p] = "lock"
    /\ semkey[p] # 0
    /\ ~hasLock[p]
    /\ timedOut => ~SemAvailable(semkey[p])
    /\ semid' = [semid EXCEPT ![p] = semkey[p]]
    /\ semgets' = [semgets EXCEPT ![p] = @ + 1]
    /\ pc' = [pc EXCEPT ![p] = "send"]
    /\ UNCHANGED <<sem, semkey, hasLock, lastError, lastCommand, exc>>
    /\ UNCHANGED <<par, retries, result, size, ioObs, doneCalls, incs, decs, lockedKey>>
    /\ UNCHANGED callerVars
    /\ UNCHANGED slaveVars

\* semtimedop returns < 0: the timeout expired while the semaphore was not
\* zero, or the call failed for another reason (EINTR, EIDRM, ...)
LockFails(p, timedOut) ==
    /\ pc[p] = "lock"
    /\ semkey[p] # 0
    /\ ~hasLock[p]
    /\ timedOut => ~SemAvailable(semkey[p])
    /\ semid' = [semid EXCEPT ![p] = semkey[p]]
    /\ semgets' = [semgets EXCEPT ![p] = @ + 1]
    /\ Raise(p, IF timedOut THEN "acquire_timeout" ELSE "acquire_error")
    /\ UNCHANGED <<sem, semkey, hasLock, lastError, lastCommand>>
    /\ UNCHANGED <<par, retries, result, size, ioObs, doneCalls, incs, decs, lockedKey>>
    /\ UNCHANGED callerVars
    /\ UNCHANGED slaveVars

(***************************************************************************)
(* ArducomMaster::send                                                     *)
(***************************************************************************)
\* while (retries >= 0): where control goes with r retries left; past the loop
\* execute closes the transaction if asked to and returns
LoopOrExit(r, close) ==
    IF r >= 0 THEN "poll" ELSE IF close THEN "close" ELSE "returned"

\* send(): the frame goes to transport.sendBytes, which refuses a size above
\* its block size limit before it writes, and fails when a write fails (ok:
\* sendBytes returns normally)
\* mutant of Send: a failure of sendBytes is not recorded in lastError
Send_FailureNotRecorded(p, ok) ==
    /\ pc[p] = "send"
    /\ ok => FrameSize(par[p].size, UseChecksum(p)) <= SERIAL_BLOCKSIZE_LIMIT
    /\ sendCalls' = [sendCalls EXCEPT ![p] = @ + 1]
    /\ frameSize' = [frameSize EXCEPT ![p] = FrameSize(par[p].size, UseChecksum(p))]
    /\ IF ok
       THEN /\ lastError' = [lastError EXCEPT ![p] = ARDUCOM_OK]
            /\ lastCommand' = [lastCommand EXCEPT ![p] = Command(p)]
            /\ retries' = [retries EXCEPT ![p] = par[p].retries]
            /\ pc' = [pc EXCEPT ![p] = LoopOrExit(par[p].retries, par[p].close)]
            /\ UNCHANGED exc
       ELSE /\ lastError' = [lastError EXCEPT ![p] = ARDUCOM_OK]
            /\ Raise(p, "send")
            /\ UNCHANGED <<lastCommand, retries>>
    /\ UNCHANGED <<sem, semkey, semid, hasLock, par, result, size>>
    /\ UNCHANGED <<requestCalls, nNoData, nTimeout, outcome, doneCalls, semObs>>
    /\ UNCHANGED <<errorInfo, destBuffer, reply>>
    /\ UNCHANGED slaveVars

Send(p, ok) ==
    /\ pc[p] = "send"
    /\ ok => FrameSize(par[p].size, UseChecksum(p)) <= SERIAL_BLOCKSIZE_LIMIT
    /\ sendCalls' = [sendCalls EXCEPT ![p] = @ + 1]
    /\ frameSize' = [frameSize EXCEPT ![p] = FrameSize(par[p].size, UseChecksum(p))]
    /\ IF ok
       THEN /\ lastError' = [lastError EXCEPT ![p] = ARDUCOM_OK]
            /\ lastCommand' = [lastCommand EXCEPT ![p] = Command(p)]
            /\ retries' = [retries EXCEPT ![p] = par[p].retries]
            /\ pc' = [pc EXCEPT ![p] = LoopOrExit(par[p].retries, par[p].close)]
            /\ UNCHANGED exc
       ELSE /\ lastError' = [lastError EXCEPT ![p] = ARDUCOM_TRANSPORT_ERROR]
            /\ Raise(p, "send")
            /\ UNCHANGED <<lastCommand, retries>>
    /\ UNCHANGED <<sem, semkey, semid, hasLock, par, result, size>>
    /\ UNCHANGED <<requestCalls, nNoData, nTimeout, outcome, doneCalls, semObs>>
    /\ UNCHANGED <<errorInfo, destBuffer, reply>>
    /\ UNCHANGED slaveVars

(***************************************************************************)
(* ArducomMaster::execute, retry loop: one iteration                       *)
(***************************************************************************)
\* mutants of ShouldRetry: one retry too few; a retry for every error code
ShouldRetry_OffByOne(res, r) == res = ARDUCOM_NO_DATA /\ r > 1

ShouldRetry_AnyError(res, r) == res # ARDUCOM_OK /\ r > 0

\* special case: if NO_DATA has been received, give the slave more time
ShouldRetry(res, r) == res = ARDUCOM_NO_DATA /\ r > 0

\* mutant of Continue: the retry sends the request again
Continue_Resend(r, close) == "send"

\* continue: back to the loop condition with r retries left
Continue(r, close) == LoopOrExit(r, close)

\* the exception execute throws for a result code (switch (result))
ExcName(res) ==
    CASE res = ARDUCOM_NO_DATA -> "NO_DATA"
      [] res = ARDUCOM_COMMAND_UNKNOWN -> "COMMAND_UNKNOWN"
      [] res = ARDUCOM_TOO_MUCH_DATA -> "TOO_MUCH_DATA"
      [] res = ARDUCOM_PARAMETER_MISMATCH -> "PARAMETER_MISMATCH"
      [] res = ARDUCOM_BUFFER_OVERRUN -> "BUFFER_OVERRUN"
      [] res = ARDUCOM_CHECKSUM_ERROR -> "CHECKSUM_ERROR"
      [] res = ARDUCOM_LIMIT_EXCEEDED -> "LIMIT_EXCEEDED"
      [] res = ARDUCOM_FUNCTION_ERROR -> "FUNCTION_ERROR"
      [] OTHER -> "device_error"

\* mutant of Poll: a retry does not count down the retries left
Poll_NoDecrement(p, o) ==
    /\ pc[p] = "poll"
    /\ LET buf == IF o.kind = "reply" THEN request(o.bytes, par[p].expected) ELSE <<>>
           r == receive([o EXCEPT !.bytes = buf], lastCommand[p], par[p].expected,
                        UseChecksum(p))
       IN  /\ lastError' = [lastError EXCEPT ![p] = r.lastError]
           /\ reply' = [reply EXCEPT ![p] = o.bytes]
           \* *errorInfo = 0 at the top of the loop; case ARDUCOM_FUNCTION_ERROR
           /\ errorInfo' = [errorInfo EXCEPT ![p] =
                              IF r.thrown = "none" /\ r.result = ARDUCOM_FUNCTION_ERROR
                              THEN r.errInfo ELSE 0]
           /\ destBuffer' = [destBuffer EXCEPT ![p] =
                               IF r.thrown # "none" THEN <<>>
                               ELSE Payload(buf, IF BufferAt(buf, 1) >= 128 THEN 3 ELSE 2,
                                            r.size)]
           /\ result' = [result EXCEPT ![p] = r.result]
           /\ size' = [size EXCEPT ![p] = r.size]
           /\ requestCalls' = [requestCalls EXCEPT ![p] =
                                 IF lastCommand[p] > 127 THEN @ ELSE @ + 1]
           /\ outcome' = [outcome EXCEPT ![p] = o.kind]
           /\ nTimeout' = [nTimeout EXCEPT ![p] =
                             IF o.kind = "timeout" THEN @ + 1 ELSE @]
           /\ nNoData' = [nNoData EXCEPT ![p] =
                            IF o.kind = "reply" /\ r.result = ARDUCOM_NO_DATA
                            THEN @ + 1 ELSE @]
           /\ IF r.thrown # "none"
              THEN Raise(p, r.thrown) /\ UNCHANGED retries
              ELSE IF r.result = ARDUCOM_OK
              THEN /\ pc' = [pc EXCEPT ![p] =
                               IF par[p].close THEN "close" ELSE "returned"]
                   /\ UNCHANGED <<retries, exc>>
              ELSE IF ShouldRetry(r.result, retries[p])
              THEN /\ pc' = [pc EXCEPT ![p] = Continue(retries[p], par[p].close)]
                   /\ UNCHANGED <<retries, exc>>
              ELSE Raise(p, ExcName(r.result)) /\ UNCHANGED retries
    /\ UNCHANGED <<sem, semkey, semid, hasLock, lastCommand, par>>
    /\ UNCHANGED <<sendCalls, doneCalls, semObs, frameSize>>
    /\ UNCHANGED slaveVars

\* one iteration of the retry loop: delay, receive(), and the switch on its result
Poll(p, o) ==
    /\ pc[p] = "poll"
    /\ LET buf == IF o.kind = "reply" THEN request(o.bytes, par[p].expected) ELSE <<>>
           r == receive([o EXCEPT !.bytes = buf], lastCommand[p], par[p].expected,
                        UseChecksum(p))
       IN  /\ lastError' = [lastError EXCEPT ![p] = r.lastError]
           /\ reply' = [reply EXCEPT ![p] = o.bytes]
           \* *errorInfo = 0 at the top of the loop; case ARDUCOM_FUNCTION_ERROR
           /\ errorInfo' = [errorInfo EXCEPT ![p] =
                              IF r.thrown = "none" /\ r.result = ARDUCOM_FUNCTION_ERROR
                              THEN r.errInfo ELSE 0]
           /\ destBuffer' = [destBuffer EXCEPT ![p] =
                               IF r.thrown # "none" THEN <<>>
                               ELSE Payload(buf, IF BufferAt(buf, 1) >= 128 THEN 3 ELSE 2,
                                            r.size)]
           /\ result' = [result EXCEPT ![p] = r.result]
           /\ size' = [size EXCEPT ![p] = r.size]
           /\ requestCalls' = [requestCalls EXCEPT ![p] =
                                 IF lastCommand[p] > 127 THEN @ ELSE @ + 1]
           /\ outcome' = [outcome EXCEPT ![p] = o.kind]
           /\ nTimeout' = [nTimeout EXCEPT ![p] =
                             IF o.kind = "timeout" THEN @ + 1 ELSE @]
           /\ nNoData' = [nNoData EXCEPT ![p] =
                            IF o.kind = "reply" /\ r.result = ARDUCOM_NO_DATA
                            THEN @ + 1 ELSE @]
           /\ IF r.thrown # "none"
              THEN Raise(p, r.thrown) /\ UNCHANGED retries
              ELSE IF r.result = ARDUCOM_OK
              THEN /\ pc' = [pc EXCEPT ![p] =
                               IF par[p].close THEN "close" ELSE "returned"]
                   /\ UNCHANGED <<retries, exc>>
              ELSE IF ShouldRetry(r.result, retries[p])
              THEN /\ retries' = [retries EXCEPT ![p] = @ - 1]
                   /\ pc' = [pc EXCEPT ![p] =
                               Continue(retries[p] - 1, par[p].close)]
                   /\ UNCHANGED exc
              ELSE Raise(p, ExcName(r.result)) /\ UNCHANGED retries
    /\ UNCHANGED <<sem, semkey, semid, hasLock, lastCommand, par>>
    /\ UNCHANGED <<sendCalls, doneCalls, semObs, frameSize>>
    /\ UNCHANGED slaveVars

(***************************************************************************)
(* ArducomMaster::unlock, ArducomMaster::done, ArducomMaster::close        *)
(***************************************************************************)
\* semop(semid, -1) sleeps while the semaphore's value is 0
UnlockBlocks(p) ==
    semkey[p] # 0 /\ hasLock[p] /\ semid[p] \in SemKeys /\ sem[semid[p]] = 0

\* mutant of unlock: the semaphore is decreased without a look at hasLock
unlock_NoHolderCheck(p) ==
    IF semkey[p] = 0 \/ semid[p] \notin SemKeys
    THEN UNCHANGED <<sem, hasLock, decs, lockedKey>>
    ELSE /\ sem[semid[p]] > 0
         /\ sem' = [sem EXCEPT ![semid[p]] = @ - 1]
         /\ decs' = [decs EXCEPT ![p] = @ + 1]
         /\ hasLock' = [hasLock EXCEPT ![p] = FALSE]
         /\ lockedKey' = [lockedKey EXCEPT ![p] = IF semid[p] = @ THEN 0 ELSE @]

unlock(p) ==
    /\ ~UnlockBlocks(p)
    /\ IF semkey[p] = 0 \/ ~hasLock[p]
       THEN UNCHANGED <<sem, hasLock, decs, lockedKey>>
       ELSE \* semop on an invalid id fails: perror, and hasLock is reset all the same
            /\ sem' = IF semid[p] \in SemKeys
                      THEN [sem EXCEPT ![semid[p]] = @ - 1] ELSE sem
            /\ decs' = [decs EXCEPT ![p] = IF semid[p] \in SemKeys THEN @ + 1 ELSE @]
            /\ hasLock' = [hasLock EXCEPT ![p] = FALSE]
            /\ lockedKey' = [lockedKey EXCEPT ![p] = IF semid[p] = @ THEN 0 ELSE @]

\* mutant of done: the transport is closed, the lock is not released
done_NoUnlock(p) ==
    /\ doneCalls' = [doneCalls EXCEPT ![p] = @ + 1]
    /\ UNCHANGED <<sem, hasLock, decs, lockedKey>>

done(p) ==
    /\ doneCalls' = [doneCalls EXCEPT ![p] = @ + 1]
    /\ unlock(p)

\* the error execute throws from its catch block: "Error executing command
\* <command>" with the caught exception nested in it
RaisedError(p) ==
    [message |-> "Error executing command", command |-> Command(p), nested |-> exc[p]]

\* catch (const std::exception&): cleanup, then rethrow nested
Catch(p) ==
    /\ pc[p] = "catch"
    /\ done(p)
    /\ pc' = [pc EXCEPT ![p] = "raised"]
    /\ UNCHANGED <<semkey, semid, lastError, lastCommand>>
    /\ UNCHANGED <<par, retries, exc, result, size, ioObs, semgets, incs>>
    /\ UNCHANGED callerVars
    /\ UNCHANGED slaveVars

\* if (close) this->close(parameters.debug)
Close(p) ==
    /\ pc[p] = "close"
    /\ done(p)
    /\ pc' = [pc EXCEPT ![p] = "returned"]
    /\ UNCHANGED <<semkey, semid, lastError, lastCommand>>
    /\ UNCHANGED <<par, retries, exc, result, size, ioObs, semgets, incs>>
    /\ UNCHANGED callerVars
    /\ UNCHANGED slaveVars

\* the caller invokes close() between transactions (also run by the destructor)
CallClose(p) ==
    /\ pc[p] = "idle"
    /\ pc' = [pc EXCEPT ![p] = "closing"]
    /\ UNCHANGED <<sem, objVars, par, retries, exc, result, size>>
    /\ UNCHANGED <<ioObs, doneCalls, semObs>>
    /\ UNCHANGED callerVars
    /\ UNCHANGED slaveVars

Closing(p) ==
    /\ pc[p] = "closing"
    /\ done(p)
    /\ pc' = [pc EXCEPT ![p] = "closed"]
    /\ UNCHANGED <<semkey, semid, lastError, lastCommand>>
    /\ UNCHANGED <<par, retries, exc, result, size, ioObs, semgets, incs>>
    /\ UNCHANGED callerVars
    /\ UNCHANGED slaveVars

\* control is back at the caller: the call's locals and observations are gone
Return(p) ==
    /\ pc[p] \in {"returned", "raised", "closed"}
    /\ pc' = [pc EXCEPT ![p] = "idle"]
    /\ par' = [par EXCEPT ![p] = NoPar]
    /\ retries' = [retries EXCEPT ![p] = 0]
    /\ exc' = [exc EXCEPT ![p] = "none"]
    /\ result' = [result EXCEPT ![p] = -1]
    /\ size' = [size EXCEPT ![p] = 0]
    /\ sendCalls' = [sendCalls EXCEPT ![p] = 0]
    /\ requestCalls' = [requestCalls EXCEPT ![p] = 0]
    /\ doneCalls' = [doneCalls EXCEPT ![p] = 0]
    /\ nNoData' = [nNoData EXCEPT ![p] = 0]
    /\ nTimeout' = [nTimeout EXCEPT ![p] = 0]
    /\ outcome' = [outcome EXCEPT ![p] = "none"]
    /\ semgets' = [semgets EXCEPT ![p] = 0]
    /\ incs' = [incs EXCEPT ![p] = 0]
    /\ decs' = [decs EXCEPT ![p] = 0]
    /\ destBuffer' = [destBuffer EXCEPT ![p] = <<>>]
    /\ frameSize' = [frameSize EXCEPT ![p] = -1]
    /\ reply' = [reply EXCEPT ![p] = <<>>]
    /\ UNCHANGED <<sem, objVars, lockedKey, errorInfo>>
    /\ UNCHANGED slaveVars

(***************************************************************************)
(* The slave: dispatcher operators and actions                             *)
(***************************************************************************)
\* bit b of the byte x, and x with bit b inverted
BitSet(x, b) == (x \div (2 ^ b)) % 2 = 1
FlipBit(x, b) == IF BitSet(x, b) THEN x - 2 ^ b ELSE x + 2 ^ b

\* the commands of the sketch: a command that replies nothing and one that
\* returns its payload, each taking any payload or exactly two bytes, the
\* command ArducomFTPInit of a sketch that has not initialised its SD card,
\* and a command with a code that is not allowed
CommandCodes == {0, 126}
CommandMenu ==
    { [commandCode |-> 0, expectedBytes |-> -1, kind |-> "noop"],
      [commandCode |-> 0, expectedBytes |-> 2, kind |-> "noop"],
      [commandCode |-> 126, expectedBytes |-> -1, kind |-> "echo"],
      [commandCode |-> 126, expectedBytes |-> 2, kind |-> "echo"],
      [commandCode |-> 126, expectedBytes |-> -1, kind |-> "ftpinit"],
      [commandCode |-> 127, expectedBytes |-> -1, kind |-> "noop"] }

\* Arducom::addCommand: the value returned and the list afterwards
addCommandResult(l, cmd) ==
    IF cmd.commandCode > 126 THEN ARDUCOM_COMMANDCODE_INVALID
    ELSE IF \E i \in 1..Len(l) : l[i].commandCode = cmd.commandCode
    THEN ARDUCOM_COMMAND_ALREADY_EXISTS
    ELSE ARDUCOM_OK

\* mutant of addCommandList: a duplicate is put in front of the list
addCommandList_Shadow(l, cmd) ==
    IF cmd.commandCode > 126 THEN l ELSE <<cmd>> \o l

addCommandList(l, cmd) ==
    IF addCommandResult(l, cmd) = ARDUCOM_OK THEN <<cmd>> \o l ELSE l

\* the search of doWork: the first entry of the list with the command code,
\* 0 when there is none
FindCommand(l, commandByte) ==
    IF \E i \in 1..Len(l) : l[i].commandCode = commandByte
    THEN CHOOSE i \in 1..Len(l) :
            /\ l[i].commandCode = commandByte
            /\ \A j \in 1..(i - 1) : l[j].commandCode # commandByte
    ELSE 0

\* a request frame as ArducomMaster::send builds it
Request(command, payload, checksum) ==
    LET code == Len(payload) + (IF checksum THEN 128 ELSE 0)
    IN  IF checksum
        THEN <<command, code, calculateChecksum(command, code, payload)>> \o payload
        ELSE <<command, code>> \o payload

\* ArducomTransportStream::doWork: read what the stream has available
RECURSIVE ReadStream(_, _, _)
ReadStream(st, d, s) ==
    IF s = <<>>
    THEN [status |-> st, data |-> d, stream |-> s, result |-> ARDUCOM_OK]
    ELSE IF Len(d) + 1 >= ARDUCOM_BUFFERSIZE
    THEN [status |-> "TOO_MUCH_DATA", data |-> <<>>, stream |-> Tail(s),
          result |-> ARDUCOM_OVERFLOW]
    ELSE ReadStream("HAS_DATA", Append(d, Head(s)), Tail(s))

TransportDoWork(st, d, s) ==
    ReadStream(st, IF st # "HAS_DATA" THEN <<>> ELSE d, s)

\* ArducomCommand::handle of the commands of the menu: result code, reply
\* payload (*dataSize is its length), *errorInfo (0 unless the handler sets it)
Handle(cmd, payload) ==
    IF cmd.kind = "noop" THEN [result |-> ARDUCOM_OK, out |-> <<>>, info |-> 0]
    ELSE IF cmd.kind = "ftpinit"
    THEN [result |-> ARDUCOM_FUNCTION_ERROR, out |-> <<>>,
          info |-> ARDUCOM_FTP_NOT_INITIALIZED]
    ELSE [result |-> ARDUCOM_OK, out |-> payload, info |-> 0]

\* int8_t ArducomTransport::hasData()
hasData(st, d) == IF st # "HAS_DATA" THEN -1 ELSE Len(d)

\* mutant of LengthAccepted: a payload longer than expected is accepted
LengthAccepted_AtLeast(cmd, dataSize) ==
    ~(cmd.expectedBytes >= 0 /\ dataSize < cmd.expectedBytes)

\* if specified, the number of payload bytes must match the expected bytes
LengthAccepted(cmd, dataSize) ==
    ~(cmd.expectedBytes >= 0 /\ dataSize # cmd.expectedBytes)

\* mutant of ChecksumAccepted: the checksum byte is not compared
ChecksumAccepted_Unverified(d, payload) == TRUE

\* calculate and verify checksum (d[3] is transport->data[2])
ChecksumAccepted(d, payload) == SlaveChecksum(d[1], d[2], payload) = d[3]

\* mutant of AfterSend: send leaves the received frame in the buffer
AfterSend_KeepsData(d) == [status |-> "HAS_DATA", data |-> d]

\* ArducomTransportStream::send: status = SENT, size = 0
AfterSend(d) == [status |-> "SENT", data |-> <<>>]

\* doWork with a completely received frame d: the search of the list, the
\* checks, the call of the handler, and the reply frame
Dispatch(l, d) ==
    LET commandByte == d[1]
        code == d[2]
        checksum == code >= 128
        hdr == IF checksum THEN 3 ELSE 2
        payload == SubSeq(d, hdr + 1, Len(d))
        dataSize == Len(d) - hdr
        i == FindCommand(l, commandByte)
    IN  IF i = 0
        THEN \* errorInfo is set to the command byte inside the loop over the list
             [reply |-> ErrorReply(ARDUCOM_COMMAND_UNKNOWN,
                                   IF l = <<>> THEN 0 ELSE commandByte),
              invoked |-> <<>>, result |-> ARDUCOM_COMMAND_ERROR]
        ELSE IF ~LengthAccepted(l[i], dataSize)
        THEN [reply |-> ErrorReply(ARDUCOM_PARAMETER_MISMATCH, l[i].expectedBytes),
              invoked |-> <<>>, result |-> ARDUCOM_COMMAND_ERROR]
        ELSE IF checksum /\ ~ChecksumAccepted(d, payload)
        THEN [reply |-> ErrorReply(ARDUCOM_CHECKSUM_ERROR,
                                   SlaveChecksum(commandByte, code, payload)),
              invoked |-> <<>>, result |-> ARDUCOM_COMMAND_ERROR]
        ELSE LET h == Handle(l[i], payload)
                 call == [commandCode |-> l[i].commandCode, entry |-> i,
                          payload |-> payload]
             IN  IF h.result # ARDUCOM_OK
                 THEN [reply |-> ErrorReply(h.result, h.info),
                       invoked |-> <<call>>, result |-> ARDUCOM_COMMAND_ERROR]
                 ELSE [reply |-> SuccessReply(l[i].commandCode, h.out, checksum),
                       invoked |-> <<call>>, result |-> ARDUCOM_COMMAND_HANDLED]

\* mutant of FrameComplete: the payload of a frame without checksum is not
\* waited for
FrameComplete_CodeByteOnly(d) ==
    /\ Len(d) > 1
    /\ d[2] >= 128 => Len(d) - 3 >= d[2] % 64

\* the frame in the buffer is complete: code byte present, payload (and
\* checksum byte) as long as the code byte says
FrameComplete(d) ==
    /\ Len(d) > 1
    /\ Len(d) - 2 >= d[2] % 64
    /\ d[2] >= 128 => Len(d) - 3 >= d[2] % 64

\* Arducom::doWork: one call; timedOut: millis() has passed the receive timeout
doWork(l, st, d, lds, lrt, s, timedOut) ==
    LET t == TransportDoWork(st, d, s)
        dataSize == hasData(t.status, t.data)
        same == [status |-> t.status, data |-> t.data, stream |-> t.stream,
                 lastDataSize |-> lds, lastReceiveTime |-> lrt,
                 result |-> t.result, emitted |-> <<>>, invoked |-> <<>>]
    IN  IF t.result # ARDUCOM_OK THEN same
        ELSE IF dataSize # lds /\ dataSize > 1
        THEN IF ~FrameComplete(t.data)
             THEN [same EXCEPT !.lastDataSize = dataSize, !.lastReceiveTime = 1]
             ELSE LET r == Dispatch(l, t.data)
                  IN  [status |-> AfterSend(t.data).status,
                       data |-> AfterSend(t.data).data,
                       stream |-> t.stream,
                       lastDataSize |-> -1, lastReceiveTime |-> 0,
                       result |-> r.result,
                       emitted |-> <<r.reply>>, invoked |-> r.invoked]
        ELSE IF lrt > 0 /\ timedOut
        THEN [same EXCEPT !.status = "NO_DATA", !.data = <<>>,
                          !.lastDataSize = -1, !.lastReceiveTime = 0,
                          !.result = ARDUCOM_TIMEOUT]
        ELSE same

\* the requests the master sends: command bytes (registered or not), payloads
\* of few bytes and payloads around the size of the slave's buffer
FrameCommands == CommandCodes \cup {99}
Pattern(n) == [i \in 1..n |-> i]
ShortPayloads == {Pattern(n) : n \in 0..MaxShort} \cup {<<253, 0>>}
LongPayloads == {Pattern(n) : n \in (ARDUCOM_BUFFERSIZE - 5)..ARDUCOM_BUFFERSIZE}

NoFrame ==
    [command |-> -1, payload |-> <<>>, checksum |-> FALSE, byte |-> 0, bit |-> 0,
     bytes |-> <<>>]

\* requests that arrive as they were sent
CleanFrames ==
    { [command |-> c, payload |-> pl, checksum |-> k, byte |-> 0, bit |-> 0,
       bytes |-> Request(c, pl, k)] :
        c \in FrameCommands, pl \in ShortPayloads \cup LongPayloads, k \in BOOLEAN }

\* checksummed requests in which the line has inverted one bit of one byte
\* other than the lead byte
CorruptFrames ==
    UNION { { [command |-> c, payload |-> pl, checksum |-> TRUE, byte |-> i, bit |-> b,
               bytes |-> [Request(c, pl, TRUE) EXCEPT ![i] = FlipBit(@, b)]] :
                i \in 2..(Len(pl) + 3), b \in 0..7 } :
            c \in CommandCodes, pl \in {Pattern(1), <<253, 0>>} }

\* setup(): the sketch registers a command
AddCommand(cmd) ==
    /\ frame = NoFrame
    /\ Len(list) < MaxCommands
    /\ list' = addCommandList(list, cmd)
    /\ addResult' = addCommandResult(list, cmd)
    /\ UNCHANGED <<status, data, lastDataSize, lastReceiveTime, stream, wire>>
    /\ UNCHANGED <<frame, written, handled, doWorkResult>>
    /\ UNCHANGED <<masterVars, sketchVars, transportVars>>

\* a master puts a request on the line; the slave is not in the middle of a frame
Feed(f) ==
    /\ wire = <<>>
    /\ stream = <<>>
    /\ data = <<>>
    /\ wire' = f.bytes
    /\ frame' = f
    /\ written' = <<>>
    /\ handled' = <<>>
    /\ addResult' = ARDUCOM_OK
    /\ doWorkResult' = ARDUCOM_OK
    /\ UNCHANGED <<list, status, data, lastDataSize, lastReceiveTime, stream>>
    /\ UNCHANGED <<masterVars, sketchVars, transportVars>>

\* a master puts a request on the line right behind a request of which no
\* byte has reached the slave yet
FeedBehind(f) ==
    /\ frame # NoFrame
    /\ wire = frame.bytes
    /\ stream = <<>>
    /\ data = <<>>
    /\ written = <<>>
    /\ wire' = wire \o f.bytes
    /\ UNCHANGED <<list, status, data, lastDataSize, lastReceiveTime, stream>>
    /\ UNCHANGED <<frame, written, handled, doWorkResult, addResult>>
    /\ UNCHANGED <<masterVars, sketchVars, transportVars>>

\* n more bytes have reached the slave's serial receiver: a short request
\* arrives byte by byte or at once, a long one in bursts or at once
Arrive(n) ==
    /\ n \in 1..Len(wire)
    /\ n = 1 => Len(frame.bytes) <= BurstSize
    /\ stream' = stream \o SubSeq(wire, 1, n)
    /\ wire' = SubSeq(wire, n + 1, Len(wire))
    /\ UNCHANGED <<list, status, data, lastDataSize, lastReceiveTime>>
    /\ UNCHANGED <<frame, written, handled, doWorkResult, addResult>>
    /\ UNCHANGED <<masterVars, sketchVars, transportVars>>

\* loop(): one call of Arducom::doWork
DoWork(timedOut) ==
    LET r == doWork(list, status, data, lastDataSize, lastReceiveTime, stream, timedOut)
    IN  /\ status' = r.status
        /\ data' = r.data
        /\ stream' = r.stream
        /\ lastDataSize' = r.lastDataSize
        /\ lastReceiveTime' = r.lastReceiveTime
        /\ doWorkResult' = r.result
        /\ written' = written \o r.emitted
        /\ handled' = handled \o r.invoked
        /\ UNCHANGED <<list, wire, frame, addResult>>
        /\ UNCHANGED <<masterVars, sketchVars, transportVars>>

(***************************************************************************)
(* The slave: the hardware I2C transport (interrupt routines and send)     *)
(***************************************************************************)
\* const uint8_t noDataResponse[] = { ARDUCOM_ERROR_CODE, ARDUCOM_NO_DATA, 0 }
noDataResponse == <<ARDUCOM_ERROR_CODE, ARDUCOM_NO_DATA, 0>>

\* the valid bytes of the transport's buffer: data[0] .. data[size - 1]
Valid(t) == SubSeq(t.data, 1, t.size)

\* bytes written to the array d from index 0 on; the rest of d stays
Store(d, bytes) == [i \in 1..Len(d) |-> IF i <= Len(bytes) THEN bytes[i] ELSE d[i]]

\* ArducomHardwareI2C::receiveEvent with the bytes Wire holds
receiveEvent(t, bytes) ==
    IF Len(bytes) >= ARDUCOM_BUFFERSIZE
    THEN [status |-> "TOO_MUCH_DATA",
          data |-> Store(t.data, SubSeq(bytes, 1, ARDUCOM_BUFFERSIZE)),
          size |-> ARDUCOM_BUFFERSIZE]
    ELSE [status |-> "HAS_DATA", data |-> Store(t.data, bytes), size |-> Len(bytes)]

\* ArducomHardwareI2C::requestEvent: the bytes given to Wire.write and the
\* transport afterwards
requestEvent(t) ==
    IF t.status = "READY_TO_SEND"
    THEN [bytes |-> Valid(t), transport |-> [t EXCEPT !.status = "SENT", !.size = 0]]
    ELSE [bytes |-> noDataResponse, transport |-> t]

\* the requests a master writes to the slave: complete frames, frames cut
\* short, and frames as long as the buffer or longer
I2CComplete ==
    {f \in CleanFrames :
        /\ f.command \in CommandCodes
        /\ f.payload \in {<<>>, <<1, 2>>}
        /\ f.payload # <<>> => f.command = 126
        /\ f.checksum => f.payload # <<>>}
I2CCut ==
    {[f EXCEPT !.bytes = SubSeq(f.bytes, 1, Len(f.bytes) - 2)] :
        f \in {g \in I2CComplete : g.payload # <<>>}}
I2CLong ==
    {f \in CleanFrames :
        f.command = 126 /\ f.checksum /\ Len(f.bytes) = ARDUCOM_BUFFERSIZE}
I2CFrames == I2CComplete \cup I2CCut \cup I2CLong

\* the receive interrupt: the master has written the bytes of f to the slave
I2CReceive(f) ==
    /\ hardwareI2C' = receiveEvent(hardwareI2C, f.bytes)
    /\ frame' = f
    /\ written' = <<>>
    /\ handled' = <<>>
    /\ bus' = <<>>
    /\ addResult' = ARDUCOM_OK
    /\ doWorkResult' = ARDUCOM_OK
    /\ UNCHANGED <<list, status, data, lastDataSize, lastReceiveTime, stream, wire>>
    /\ UNCHANGED i2cSend
    /\ UNCHANGED <<masterVars, sketchVars, ethVars>>

\* the request interrupt: the master reads from the slave
I2CRequest ==
    /\ frame # NoFrame
    /\ Len(bus) < MaxRequests
    /\ LET r == requestEvent(hardwareI2C)
       IN  /\ hardwareI2C' = r.transport
           /\ bus' = Append(bus, r.bytes)
    /\ UNCHANGED <<streamVars, i2cSend>>
    /\ UNCHANGED <<masterVars, sketchVars, ethVars>>

\* loop(): one call of Arducom::doWork up to its call of transport->send;
\* ArducomHardwareI2C::doWork does nothing and returns ARDUCOM_OK
I2CDoWork(timedOut) ==
    /\ i2cSend = NoSend
    /\ LET r == doWork(list, hardwareI2C.status, Valid(hardwareI2C), lastDataSize,
                       lastReceiveTime, <<>>, timedOut)
       IN  /\ lastDataSize' = r.lastDataSize
           /\ lastReceiveTime' = r.lastReceiveTime
           /\ doWorkResult' = r.result
           /\ written' = written \o r.emitted
           /\ handled' = handled \o r.invoked
           /\ i2cSend' = IF r.emitted = <<>> THEN NoSend
                         ELSE [pc |-> "status", buffer |-> r.emitted[1], i |-> 0]
           \* transport->reset() when the receive timeout is up
           /\ hardwareI2C' = IF r.result = ARDUCOM_TIMEOUT
                             THEN [hardwareI2C EXCEPT !.status = "NO_DATA", !.size = 0]
                             ELSE hardwareI2C
    /\ UNCHANGED <<list, status, data, stream, wire, frame, addResult, bus>>
    /\ UNCHANGED <<masterVars, sketchVars, ethVars>>

\* ArducomHardwareI2C::send, first statement: this->status = READY_TO_SEND
SendStatus ==
    /\ i2cSend.pc = "status"
    /\ hardwareI2C' = [hardwareI2C EXCEPT !.status = "READY_TO_SEND"]
    /\ i2cSend' = [i2cSend EXCEPT !.pc = "copy"]
    /\ UNCHANGED <<streamVars, bus>>
    /\ UNCHANGED <<masterVars, sketchVars, ethVars>>

\* ArducomHardwareI2C::send, one pass of its loop: this->data[i] = buffer[i]
SendCopy ==
    /\ i2cSend.pc = "copy"
    /\ Len(i2cSend.buffer) <= ARDUCOM_BUFFERSIZE
    /\ i2cSend.i < Len(i2cSend.buffer)
    /\ hardwareI2C' = [hardwareI2C EXCEPT !.data[i2cSend.i + 1] = i2cSend.buffer[i2cSend.i + 1]]
    /\ i2cSend' = [i2cSend EXCEPT !.i = @ + 1]
    /\ UNCHANGED <<streamVars, bus>>
    /\ UNCHANGED <<masterVars, sketchVars, ethVars>>

\* ArducomHardwareI2C::send, the end: this->size = count, or the error frame
\* of a count greater than the buffer
SendSize ==
    /\ i2cSend.pc = "copy"
    /\ IF Len(i2cSend.buffer) > ARDUCOM_BUFFERSIZE
       THEN hardwareI2C' =
                [hardwareI2C EXCEPT
                    !.data = Store(@, <<ARDUCOM_ERROR_CODE, ARDUCOM_TOO_MUCH_DATA,
                                        Len(i2cSend.buffer)>>),
                    !.size = 3]
       ELSE /\ i2cSend.i = Len(i2cSend.buffer)
            /\ hardwareI2C' = [hardwareI2C EXCEPT !.size = Len(i2cSend.buffer)]
    /\ i2cSend' = NoSend
    /\ UNCHANGED <<streamVars, bus>>
    /\ UNCHANGED <<masterVars, sketchVars, ethVars>>

(***************************************************************************)
(* The slave: the Ethernet transport                                       *)
(***************************************************************************)
\* where the byte of a write to data[ARDUCOM_BUFFERSIZE] lands: on the field
\* declared behind the array, size, or beside the fields of the transport
Landings == {"size", "beside"}

\* bytes written to the array d from index at on
StoreAt(d, at, bytes) ==
    [i \in 1..Len(d) |->
        IF i > at /\ i <= at + Len(bytes) THEN bytes[i - at] ELSE d[i]]

\* ArducomTransportEthernet::doWork, the loop while (client.available()):
\* t the transport, s the bytes of the client, top the highest index written.
\* The passes of the loop that write inside the array are taken together;
\* the pass that writes data[ARDUCOM_BUFFERSIZE] sets size from where its
\* byte has landed, and size++ (uint8_t) follows.
RECURSIVE ReadClient(_, _, _, _)
ReadClient(t, s, top, lands) ==
    LET room == ARDUCOM_BUFFERSIZE - t.size
    IN  IF s = <<>>
        THEN [transport |-> t, client |-> s, top |-> top, result |-> ARDUCOM_OK]
        ELSE IF Len(s) <= room
        THEN [transport |-> [status |-> "HAS_DATA", data |-> StoreAt(t.data, t.size, s),
                             size |-> t.size + Len(s)],
              client |-> <<>>, top |-> Max(top, t.size + Len(s) - 1),
              result |-> ARDUCOM_OK]
        ELSE LET d == StoreAt(t.data, t.size, SubSeq(s, 1, room))
                 n == IF lands = "beside" THEN ARDUCOM_BUFFERSIZE + 1
                      ELSE (s[room + 1] + 1) % 256
                 rest == SubSeq(s, room + 2, Len(s))
             IN  IF n > ARDUCOM_BUFFERSIZE
                 THEN [transport |-> [status |-> "TOO_MUCH_DATA", data |-> d, size |-> n],
                       client |-> rest, top |-> ARDUCOM_BUFFERSIZE,
                       result |-> ARDUCOM_OVERFLOW]
                 ELSE ReadClient([status |-> "HAS_DATA", data |-> d, size |-> n],
                                 rest, ARDUCOM_BUFFERSIZE, lands)

\* the client sends a request; the slave is not in the middle of a frame
ClientFeed(f) ==
    /\ ethernet.status = "HAS_DATA" => ethernet.size = 0
    /\ Feed(f)

\* loop(): one call of Arducom::doWork with the Ethernet transport, the server
\* initialized and the client connected
EthernetDoWork(timedOut, lands) ==
    LET t0 == IF stream # <<>> /\ ethernet.status # "HAS_DATA"
              THEN [ethernet EXCEPT !.size = 0] ELSE ethernet
        rd == ReadClient(t0, stream, topIndex, lands)
        r == doWork(list, rd.transport.status,
                    IF rd.transport.status = "HAS_DATA" THEN Valid(rd.transport) ELSE <<>>,
                    lastDataSize, lastReceiveTime, <<>>, timedOut)
    IN  /\ stream' = rd.client
        /\ topIndex' = rd.top
        /\ IF rd.result # ARDUCOM_OK
           THEN /\ ethernet' = rd.transport
                /\ doWorkResult' = rd.result
                /\ UNCHANGED <<lastDataSize, lastReceiveTime, written, handled>>
           ELSE /\ ethernet' =
                      IF r.emitted # <<>> \/ r.result = ARDUCOM_TIMEOUT
                      THEN \* ArducomTransportEthernet::send, ArducomTransport::reset
                           [rd.transport EXCEPT !.status = r.status, !.size = 0]
                      ELSE rd.transport
                /\ lastDataSize' = r.lastDataSize
                /\ lastReceiveTime' = r.lastReceiveTime
                /\ doWorkResult' = r.result
                /\ written' = written \o r.emitted
                /\ handled' = handled \o r.invoked
        /\ UNCHANGED <<list, status, data, wire, frame, addResult>>
        /\ UNCHANGED <<masterVars, sketchVars, i2cVars>>

(***************************************************************************)
(* The slave: the version command                                          *)
(***************************************************************************)
\* (x & f) == f for a flag f of one bit
HasFlag(x, f) == (x \div f) % 2 = 1

\* Arducom::getFlags
getFlags(dbg) == IF dbg THEN ARDUCOM_FLAG_ENABLEDEBUG ELSE 0

\* Arducom::setFlags: the debug output and the state of the controller after
\* the call (from "loop" and "reset" the call does not return)
setFlags(mask, flags, dbg) ==
    [debug |-> IF HasFlag(mask, ARDUCOM_FLAG_ENABLEDEBUG)
               THEN HasFlag(flags, ARDUCOM_FLAG_ENABLEDEBUG)
               ELSE dbg,
     mcu |-> IF HasFlag(mask, ARDUCOM_FLAG_INFINITELOOP)
                /\ HasFlag(flags, ARDUCOM_FLAG_INFINITELOOP)
             THEN "loop"
             ELSE IF HasFlag(mask, ARDUCOM_FLAG_SOFTRESET)
                     /\ HasFlag(flags, ARDUCOM_FLAG_SOFTRESET)
             THEN "reset"
             ELSE "running"]

\* the payloads of the version command: mask and flag bytes with the bits
\* 0, 6 and 7, the two bytes of the shutdown sentinel, alone and in pairs
VersionBytes == {0, 1, 64, 65, 128, 129, 173, 222, 255}
VersionPayloads ==
    {<<>>, <<1>>, <<222, 173, 0>>, <<128, 128, 0>>}
        \cup {<<m, f>> : m \in VersionBytes, f \in VersionBytes}

\* setup(): the sketch constructs its ArducomVersionCommand, with or without
\* a shutdown hook
NewVersionCommand(hook) ==
    /\ versionCall = NoCall
    /\ mcu = "running"
    /\ shutdownHook' = hook
    /\ UNCHANGED <<debug, mcu, versionCall>>
    /\ UNCHANGED <<masterVars, streamVars, calc, transportVars>>

\* ArducomVersionCommand::handle with *dataSize = Len(payload); the uptime
\* and the free RAM of the reply are taken as 0, the data string as empty
VersionHandle(payload) ==
    LET n == Len(payload)
        mask == payload[1]
        flags == payload[2]
        callHook == n >= 2 /\ mask + flags * 256 = ARDUCOM_SHUTDOWN /\ shutdownHook
        f == IF n >= 2 /\ ~callHook
             THEN setFlags(mask, flags, debug)
             ELSE [debug |-> debug, mcu |-> "running"]
    IN  /\ mcu = "running"
        /\ debug' = f.debug
        /\ mcu' = f.mcu
        /\ versionCall' =
              [payload |-> payload, hooked |-> callHook,
               returned |-> f.mcu = "running",
               reply |-> IF f.mcu = "running"
                         THEN <<VERSION, 0, 0, 0, 0, getFlags(f.debug), 0, 0>>
                         ELSE <<>>]
        /\ UNCHANGED shutdownHook
        /\ UNCHANGED <<masterVars, streamVars, calc, transportVars>>

\* the watchdog resets the controller, which runs setup() again
Watchdog ==
    /\ mcu # "running"
    /\ mcu' = "running"
    /\ debug' = TRUE
    /\ UNCHANGED <<shutdownHook, versionCall>>
    /\ UNCHANGED <<masterVars, streamVars, calc, transportVars>>

(***************************************************************************)
(* calculateChecksum called on its own                                     *)
(***************************************************************************)
\* command and code bytes, and payload bytes, of the calls
ChecksumHeads == {0, 126, 255}
ChecksumBytes == {0, 1, 127, 128, 254, 255}

\* what both copies of calculateChecksum compute for the arguments
Calculated(commandByte, code, bytes) ==
    [commandByte |-> commandByte, code |-> code, bytes |-> bytes, called |-> TRUE,
     sum |-> ChecksumRunning(commandByte, code, bytes),
     slaveSum |-> SlaveChecksumRunning(commandByte, code, bytes),
     master |-> calculateChecksum(commandByte, code, bytes),
     slave |-> SlaveChecksum(commandByte, code, bytes)]

\* calculateChecksum is called for a frame without payload
ChecksumOfHeader(commandByte, code) ==
    /\ ~calc.called \/ Len(calc.bytes) = SERIAL_BLOCKSIZE_LIMIT
    /\ calc' = Calculated(commandByte, code, <<>>)
    /\ UNCHANGED <<masterVars, streamVars, versionVars, transportVars>>

\* calculateChecksum is called for the same frame with one more payload
\* byte: any byte for the first two, then the payload repeats itself
ChecksumOfLonger(b) ==
    /\ calc.called
    /\ Len(calc.bytes) < SERIAL_BLOCKSIZE_LIMIT
    /\ Len(calc.bytes) >= 2 => b = calc.bytes[Len(calc.bytes) - 1]
    /\ calc' = Calculated(calc.commandByte, calc.code, Append(calc.bytes, b))
    /\ UNCHANGED <<masterVars, streamVars, versionVars, transportVars>>

(***************************************************************************)
(* Specifications                                                          *)
(***************************************************************************)
\* Spec: one master process alone on the bus, with every parameter value and
\* every reply of the menu.
Solo == CHOOSE p \in Masters : \A q \in Masters : p <= q

Next ==
    \/ \E r \in 0..MaxRetries, k \in SemkeyArgs, c \in BOOLEAN : Execute(Solo, r, k, c)
    \/ LockDisabled(Solo)
    \/ LockSemgetFails(Solo)
    \/ LockTwice(Solo)
    \/ LockAcquire(Solo)
    \/ LockFails(Solo, FALSE)
    \/ \E ok \in BOOLEAN : Send(Solo, ok)
    \/ \E o \in RequestOutcomes(Solo) : Poll(Solo, o)
    \/ Catch(Solo)
    \/ Close(Solo)
    \/ CallClose(Solo)
    \/ Closing(Solo)
    \/ Return(Solo)

Spec == Init /\ [][Next]_vars

\* SpecLive: Spec in which a call that is running goes on: transport.request
\* returns or raises (at the latest its read times out), and the cleanup
\* code that follows the loop runs
SpecLive ==
    /\ Spec
    /\ WF_vars(Poll(Solo, [kind |-> "timeout", bytes |-> <<>>]))
    /\ WF_vars(Catch(Solo))
    /\ WF_vars(Close(Solo))

\* SpecSameKey: NumMasters processes on one bus, each with its own parameters,
\* all using the transport's key; the slave answers a poll with success or
\* NO_DATA, or the transport fails.
BusOutcomes(p) ==
    { [kind |-> "exception", bytes |-> <<>>],
      [kind |-> "reply", bytes |-> ErrorReply(ARDUCOM_NO_DATA, 0)],
      [kind |-> "reply", bytes |-> SuccessReply(Command(p), <<>>, UseChecksum(p))] }

NextSameKey ==
    \E p \in Masters :
        \/ \E r \in 0..1, k \in {-1, TransportSemkey}, c \in BOOLEAN : Execute(p, r, k, c)
        \/ LockSemgetFails(p)
        \/ LockTwice(p)
        \/ LockAcquire(p)
        \/ \E timedOut \in BOOLEAN : LockFails(p, timedOut)
        \/ Send(p, TRUE)
        \/ \E o \in BusOutcomes(p) : Poll(p, o)
        \/ Catch(p)
        \/ Close(p)
        \/ CallClose(p)
        \/ Closing(p)
        \/ Return(p)

SpecSameKey == Init /\ [][NextSameKey]_vars

\* SpecBus: NumMasters processes on one bus whose calls name any key, also 0
NextBus ==
    \E p \in Masters :
        \/ \E k \in {0} \cup SemKeys, c \in BOOLEAN : Execute(p, 0, k, c)
        \/ LockDisabled(p)
        \/ LockTwice(p)
        \/ LockAcquire(p)
        \/ \E timedOut \in BOOLEAN : LockFails(p, timedOut)
        \/ Send(p, TRUE)
        \/ \E o \in BusOutcomes(p) \ {[kind |-> "exception", bytes |-> <<>>]} : Poll(p, o)
        \/ Catch(p)
        \/ Close(p)
        \/ CallClose(p)
        \/ Closing(p)
        \/ Return(p)

SpecBus == Init /\ [][NextBus]_vars

\* SpecCall: one master process alone on the bus, either the one that uses
\* checksums or the one that does not, with the transport's key; its calls
\* have every value of expected with no payload, or a payload of one of
\* PayloadSizes bytes with the default value of expected.
PayloadSizes ==
    {0, 1, SERIAL_BLOCKSIZE_LIMIT - 3, SERIAL_BLOCKSIZE_LIMIT - 2,
     SERIAL_BLOCKSIZE_LIMIT - 1, SERIAL_BLOCKSIZE_LIMIT, SERIAL_BLOCKSIZE_LIMIT + 1,
     253, 254, 255}

\* no other process has called execute
Alone(p) == \A q \in Masters \ {p} : semkey[q] = 0

NextCall ==
    \E p \in Masters :
        /\ Alone(p)
        /\ \/ \E r \in 0..1, c \in BOOLEAN, e \in 0..SERIAL_BLOCKSIZE_LIMIT :
                  ExecuteWith(p, r, -1, c, e, 0)
           \/ \E c \in BOOLEAN, n \in PayloadSizes : ExecuteWith(p, 0, -1, c, Expected, n)
           \/ LockSemgetFails(p)
           \/ LockTwice(p)
           \/ LockAcquire(p)
           \/ LockFails(p, FALSE)
           \/ \E ok \in BOOLEAN : Send(p, ok)
           \/ \E o \in RequestOutcomes(p) : Poll(p, o)
           \/ Catch(p)
           \/ Close(p)
           \/ CallClose(p)
           \/ Closing(p)
           \/ Return(p)

SpecCall == Init /\ [][NextCall]_vars

\* SpecSlave: the slave alone: the sketch registers commands, then requests
\* arrive byte by byte or at once, between calls of doWork
NextSlave ==
    \/ \E cmd \in CommandMenu : AddCommand(cmd)
    \/ \E f \in CleanFrames \cup CorruptFrames : Feed(f)
    \/ Arrive(1)
    \/ Arrive(BurstSize)
    \/ Arrive(Len(wire))
    \/ \E timedOut \in BOOLEAN : DoWork(timedOut)

SpecSlave == Init /\ [][NextSlave]_vars

\* SpecBackToBack: the slave alone, with short requests that may follow each
\* other on the line without a pause
PairMenu == {cmd \in CommandMenu : cmd.commandCode = 126 /\ cmd.kind = "echo"}
PairFrames ==
    {f \in CleanFrames : f.command \in CommandCodes /\ f.payload \in {<<>>, <<1, 2>>}}

NextBackToBack ==
    \/ \E cmd \in PairMenu : AddCommand(cmd)
    \/ \E f \in PairFrames : Feed(f)
    \/ \E f \in PairFrames : FeedBehind(f)
    \/ Arrive(1)
    \/ Arrive(Len(wire))
    \/ \E timedOut \in BOOLEAN : DoWork(timedOut)

SpecBackToBack == Init /\ [][NextBackToBack]_vars

\* SpecVersion: the version command of a sketch, with or without a shutdown
\* hook, called with every payload of VersionPayloads
NextVersion ==
    \/ \E hook \in BOOLEAN : NewVersionCommand(hook)
    \/ \E payload \in VersionPayloads : VersionHandle(payload)
    \/ Watchdog

SpecVersion == Init /\ [][NextVersion]_vars

\* SpecChecksum: calculateChecksum of the master and of the slave, called
\* with payloads of 0..32 bytes
NextChecksum ==
    \/ \E commandByte \in ChecksumHeads, code \in ChecksumHeads :
            ChecksumOfHeader(commandByte, code)
    \/ \E b \in ChecksumBytes : ChecksumOfLonger(b)

SpecChecksum == Init /\ [][NextChecksum]_vars

\* SpecI2C: the slave on the I2C bus; the interrupt routines run between the
\* statements of the main loop
NextI2C ==
    \/ \E cmd \in PairMenu : AddCommand(cmd)
    \/ \E f \in I2CFrames : I2CReceive(f)
    \/ I2CRequest
    \/ \E timedOut \in BOOLEAN : I2CDoWork(timedOut)
    \/ SendStatus
    \/ SendCopy
    \/ SendSize

SpecI2C == Init /\ [][NextI2C]_vars

\* the main loop keeps running: loop() calls doWork again and again, and a
\* call of send runs to its end
SpecI2CLive ==
    /\ SpecI2C
    /\ WF_vars(\E timedOut \in BOOLEAN : I2CDoWork(timedOut))
    /\ WF_vars(SendStatus)
    /\ WF_vars(SendCopy)
    /\ WF_vars(SendSize)

\* SpecEthernet: the slave behind the Ethernet transport; short requests and
\* requests of ARDUCOM_BUFFERSIZE bytes and more arrive in bursts or at
\* once
EthernetFrames ==
    {f \in CleanFrames :
        /\ f.command = 126 /\ ~f.checksum
        /\ \/ f.payload = <<>>
           \/ Len(f.bytes) \in ARDUCOM_BUFFERSIZE..(ARDUCOM_BUFFERSIZE + 1)}

NextEthernet ==
    \/ \E cmd \in PairMenu : AddCommand(cmd)
    \/ \E f \in EthernetFrames : ClientFeed(f)
    \/ Arrive(BurstSize)
    \/ Arrive(Len(wire))
    \/ \E timedOut \in BOOLEAN, lands \in Landings : EthernetDoWork(timedOut, lands)

SpecEthernet == Init /\ [][NextEthernet]_vars

(***************************************************************************)
(* Properties                                                              *)
(***************************************************************************)
\* a step of process p that is one pass of the retry loop (one call of receive
\* that reaches transport.request)
PollStep(p) == pc[p] = "poll" /\ requestCalls'[p] = requestCalls[p] + 1

\* the exceptions with which lock() fails to acquire the semaphore
AcquireFailures == {"semget", "acquire_timeout", "acquire_error"}

\* C1: retry policy. While the slave has answered every poll of the call with
\* the error reply NO_DATA, k times: with k <= parameters.retries the master
\* polls again; with k = parameters.retries + 1 the call raises the NO_DATA
\* error with lastError = ARDUCOM_NO_DATA (128). When the poll after k NO_DATA
\* replies is answered by a valid success reply, the call succeeds (and
\* k <= parameters.retries).
C1_RetryPolicy ==
    \A p \in Masters :
        (requestCalls[p] > 0 /\ nTimeout[p] = 0) =>
            LET k == nNoData[p]
            IN  /\ requestCalls[p] = k =>
                    IF k <= par[p].retries
                    THEN pc[p] = "poll" /\ exc[p] = "none"
                    ELSE /\ pc[p] \in {"catch", "raised"}
                         /\ exc[p] = "NO_DATA"
                         /\ lastError[p] = 128
                         /\ k = par[p].retries + 1
                /\ (requestCalls[p] = k + 1 /\ result[p] = 0) =>
                    /\ pc[p] \in {"close", "returned"}
                    /\ exc[p] = "none"
                    /\ lastError[p] = 0
                    /\ k <= par[p].retries

\* scenario F of the specification: retries = 2, NO_DATA twice, then success
C1_Witness ==
    \E p \in Masters :
        /\ pc[p] = "returned"
        /\ par[p].retries = 2
        /\ nNoData[p] = 2
        /\ requestCalls[p] = 3
        /\ result[p] = 0
        /\ size[p] = 0

\* C2: only the result NO_DATA causes another poll. A poll whose outcome is any
\* other error (an error reply with another non-zero code, a checksum
\* mismatch, or an exception of receive) makes execute raise at once, whatever
\* the number of retries left.
C2_OnlyNoDataRetries ==
    [][\A p \in Masters :
        PollStep(p) =>
            /\ pc'[p] = "poll" => result'[p] = 128
            /\ result'[p] \notin {0, 128} =>
                /\ pc'[p] = "catch"
                /\ exc'[p] # "none"
                /\ retries'[p] = retries[p]]_vars

\* a checksum error reply at the first poll raised although retries remained
C2_Witness ==
    \E p \in Masters :
        /\ pc[p] = "raised"
        /\ result[p] = 133
        /\ requestCalls[p] = 1
        /\ retries[p] = 2

\* C3: every execute call hands at most one request frame to
\* transport.sendBytes: none before lock() has returned or when lock() failed
\* to acquire, exactly one once the retry loop runs and at every exit after
\* that, whatever number of NO_DATA replies and timeouts occurred.
C3_SendOnce ==
    \A p \in Masters :
        /\ sendCalls[p] <= 1
        /\ pc[p] \in {"lock", "send"} => sendCalls[p] = 0
        /\ pc[p] \in {"poll", "close", "returned"} => sendCalls[p] = 1
        /\ pc[p] \in {"catch", "raised"} =>
              sendCalls[p] = IF exc[p] \in AcquireFailures \cup {"programming_error"}
                             THEN 0 ELSE 1

\* three polls (a timeout and a NO_DATA reply among them), one send
C3_Witness ==
    \E p \in Masters :
        /\ pc[p] = "raised"
        /\ requestCalls[p] = 3
        /\ nTimeout[p] >= 1
        /\ nNoData[p] >= 1
        /\ sendCalls[p] = 1

\* a step of process p that runs cleanup (done(): transport.done(), unlock())
DoneStep(p) == pc[p] \in {"catch", "close", "closing"} /\ doneCalls'[p] = doneCalls[p] + 1

\* a step of process p that is its call of lock()
LockStep(p) == pc[p] = "lock" /\ pc'[p] # "lock"

C5_MutualExclusion ==
    /\ Cardinality({p \in Masters : hasLock[p]}) <= 1
    /\ Cardinality({p \in Masters : pc[p] \in {"send", "poll"}}) <= 1
    /\ \A p \in Masters : pc[p] \in {"send", "poll"} => hasLock[p]
    /\ \A p \in Masters : hasLock[p] => sem[semkey[p]] = 1

\* one process polls while another has timed out waiting for the semaphore
C5_Witness ==
    \E p, q \in Masters :
        /\ p # q
        /\ pc[p] = "poll"
        /\ nNoData[p] = 1
        /\ pc[q] = "raised"
        /\ exc[q] = "acquire_timeout"

\* C6 as claimed: the value of every semaphore is the number of master
\* objects whose hasLock flag is true for that key (the key under which the
\* object took its lock), and it is 0 or 1.
C6_Original ==
    \A k \in SemKeys :
        /\ sem[k] = Cardinality({p \in Masters : hasLock[p] /\ lockedKey[p] = k})
        /\ sem[k] \in {0, 1}

\* C7 as claimed: unlock() without the lock changes neither semaphore nor
\* hasLock, and lock() called while hasLock is true raises the programming
\* error without a second increment.
C7_Original ==
    [][\A p \in Masters :
        /\ (DoneStep(p) /\ ~hasLock[p]) => (sem' = sem /\ hasLock' = hasLock)
        /\ (LockStep(p) /\ hasLock[p]) =>
              (sem' = sem /\ pc'[p] = "catch" /\ exc'[p] = "programming_error")]_vars

\* C7 amended: unlock() without the lock changes neither semaphore nor
\* hasLock; lock() called while hasLock is true never increments a semaphore,
\* and it raises the programming error when the resolved key is not 0 and
\* semget succeeds (with key 0 it returns normally, after a failed semget it
\* raises the system error).
C7_UnlockIdempotentLockOnce ==
    [][\A p \in Masters :
        /\ (DoneStep(p) /\ ~hasLock[p]) => (sem' = sem /\ hasLock' = hasLock)
        /\ (LockStep(p) /\ hasLock[p]) =>
              /\ sem' = sem
              /\ hasLock'[p]
              /\ incs'[p] = incs[p]
              /\ IF semkey[p] = 0 THEN pc'[p] = "send" /\ exc'[p] = "none"
                 ELSE /\ pc'[p] = "catch"
                      /\ exc'[p] = IF semid'[p] = -1 THEN "semget"
                                   ELSE "programming_error"]_vars

\* a second execute on a master that still holds the lock met the check
C7_Witness ==
    \E p \in Masters :
        /\ pc[p] = "catch"
        /\ exc[p] = "programming_error"
        /\ hasLock[p]
        /\ incs[p] = 0
        /\ sem[semkey[p]] = 1

\* C8: the key execute uses is parameters.semkey when that is >= 0 and the
\* transport's key otherwise; a transaction whose key is 0 performs no
\* semaphore operation (no semget, wait, increment, decrement) and leaves
\* hasLock as it was (false stays false).
C8_KeyResolution ==
    /\ [](\A p \in Masters :
            pc[p] \in {"lock", "send", "poll", "catch", "close", "returned", "raised"} =>
                /\ semkey[p] = IF par[p].semkey >= 0 THEN par[p].semkey ELSE 1
                /\ semkey[p] = 0 => semgets[p] = 0 /\ incs[p] = 0 /\ decs[p] = 0)
    /\ [][\A p \in Masters :
            (pc[p] \in {"lock", "send", "poll", "catch", "close"} /\ semkey[p] = 0) =>
                (hasLock'[p] = hasLock[p] /\ semid'[p] = semid[p] /\ sem' = sem)]_vars

\* a transaction with parameters.semkey = 0 ran to its end without the lock
C8_Witness ==
    \E p \in Masters :
        /\ pc[p] = "returned"
        /\ par[p].semkey = 0
        /\ par[p].close
        /\ requestCalls[p] >= 1
        /\ ~hasLock[p]
        /\ doneCalls[p] = 1

\* C9: when lock() fails to acquire the semaphore (semget or semtimedop
\* fails, or the wait times out), execute raises without a call of sendBytes
\* or request, and without an increment or decrement by this process.
C9_NoSendWithoutLock ==
    \A p \in Masters :
        (pc[p] \in {"catch", "raised"} /\ exc[p] \in AcquireFailures) =>
            /\ sendCalls[p] = 0
            /\ requestCalls[p] = 0
            /\ incs[p] = 0
            /\ decs[p] = 0
            /\ pc[p] = "raised" => ~hasLock[p]

\* a process timed out while another one held the semaphore, and raised
C9_Witness ==
    \E p, q \in Masters :
        /\ p # q
        /\ pc[p] = "raised"
        /\ exc[p] = "acquire_timeout"
        /\ hasLock[q]
        /\ sem[semkey[q]] = 1

\* C10: a TimeoutException of transport.request is handled like a NO_DATA
\* reply: with retries left the poll is repeated (retries decremented, nothing
\* sent), with none left execute raises the NO_DATA error; a generic exception
\* of the transport makes execute raise at once, retries left or not.
C10_TimeoutLikeNoData ==
    [][\A p \in Masters :
        PollStep(p) =>
            /\ outcome'[p] = "timeout" =>
                  /\ result'[p] = 128
                  /\ sendCalls'[p] = sendCalls[p]
                  /\ IF retries[p] > 0
                     THEN /\ pc'[p] = "poll"
                          /\ retries'[p] = retries[p] - 1
                          /\ exc'[p] = "none"
                     ELSE /\ pc'[p] = "catch"
                          /\ exc'[p] = "NO_DATA"
            /\ outcome'[p] = "exception" =>
                  /\ pc'[p] = "catch"
                  /\ exc'[p] = "transport"
                  /\ lastError'[p] = 13
                  /\ retries'[p] = retries[p]]_vars

\* every poll of a call with two retries timed out: NO_DATA raised after three
C10_Witness ==
    \E p \in Masters :
        /\ pc[p] = "raised"
        /\ exc[p] = "NO_DATA"
        /\ par[p].retries = 2
        /\ nTimeout[p] = 3
        /\ lastError[p] = 4
        /\ sendCalls[p] = 1

\* the exceptions that stem from a generic exception of the transport: "Error
\* sending data" (sendBytes), "Error requesting data" / "Error reading data"
\* (request, readByte)
TransportFailures == {"send", "transport"}

\* C11: when sendBytes, request or readByte raises a generic exception during
\* execute, the engine has run done() once (transport.done() and unlock()),
\* the lock this call took is released, lastError is ARDUCOM_TRANSPORT_ERROR
\* and the error raised names the command number and nests the original one.
C11_TransportFailureCleanup ==
    \A p \in Masters :
        /\ (pc[p] = "catch" /\ exc[p] \in TransportFailures) =>
              /\ lastError[p] = ARDUCOM_TRANSPORT_ERROR
              /\ doneCalls[p] = 0
        /\ (pc[p] = "raised" /\ exc[p] \in TransportFailures) =>
              /\ doneCalls[p] = 1
              /\ lastError[p] = ARDUCOM_TRANSPORT_ERROR
              /\ semkey[p] # 0 => (incs[p] = 1 /\ ~hasLock[p])
              /\ incs[p] = 1 => (decs[p] = 1 /\ ~hasLock[p] /\ sem[semkey[p]] = 0)
              /\ RaisedError(p).command = Command(p)
              /\ RaisedError(p).nested \in TransportFailures
              /\ sendCalls[p] = 1
              /\ exc[p] = "send" <=> requestCalls[p] = 0

\* readByte refused a position past the block size while the payload of a
\* reply was read: the call raised, the lock it took is released
C11_Witness ==
    \E p \in Masters :
        /\ pc[p] = "raised"
        /\ exc[p] = "transport"
        /\ outcome[p] = "reply"
        /\ incs[p] = 1
        /\ decs[p] = 1
        /\ lastError[p] = ARDUCOM_TRANSPORT_ERROR

\* a step of process p that is its call of send()
SendStep(p) == pc[p] = "send" /\ sendCalls'[p] = sendCalls[p] + 1

\* C12: within one process a transaction runs in the order acquire-lock,
\* send, (delay, request/read) repeated on NO_DATA, release-lock: lock() comes
\* before any send or poll; send comes once, with the lock held and before any
\* poll; every poll comes after the send, with the lock held and before the
\* release; the release that ends a successful transaction comes after a poll
\* that returned OK, all polls before it having returned NO_DATA.
C12_StrictOrder ==
    [][\A p \in Masters :
        /\ LockStep(p) =>
              sendCalls[p] = 0 /\ requestCalls[p] = 0 /\ doneCalls[p] = 0
        /\ SendStep(p) =>
              /\ semkey[p] # 0 => (hasLock[p] /\ incs[p] = 1)
              /\ sendCalls[p] = 0 /\ requestCalls[p] = 0
              /\ doneCalls[p] = 0 /\ decs[p] = 0
        /\ PollStep(p) =>
              /\ semkey[p] # 0 => (hasLock[p] /\ incs[p] = 1)
              /\ sendCalls[p] = 1
              /\ doneCalls[p] = 0 /\ decs[p] = 0
        /\ (DoneStep(p) /\ pc[p] = "close") =>
              /\ sendCalls[p] = 1
              /\ result[p] = ARDUCOM_OK
              /\ requestCalls[p] = nNoData[p] + nTimeout[p] + 1
              /\ doneCalls[p] = 0
              /\ semkey[p] # 0 => (hasLock[p] /\ ~hasLock'[p] /\ decs'[p] = 1)]_vars

\* a successful transaction that took the lock, sent, polled twice (NO_DATA,
\* then OK) and released the lock
C12_Witness ==
    \E p \in Masters :
        /\ pc[p] = "returned"
        /\ par[p].close
        /\ sendCalls[p] = 1
        /\ requestCalls[p] = 2
        /\ nNoData[p] = 1
        /\ result[p] = ARDUCOM_OK
        /\ incs[p] = 1
        /\ decs[p] = 1
        /\ ~hasLock[p]

(***************************************************************************)
(* Properties of the slave                                                 *)
(***************************************************************************)
\* a step that is one call of Arducom::doWork
DoWorkStep == \E timedOut \in BOOLEAN : DoWork(timedOut)

\* the transport's buffer after the doWork call of this step has read the stream
Received == TransportDoWork(status, data, stream).data

\* a call of doWork that finds a complete frame and answers it
DispatchStep == DoWorkStep /\ Len(written') = Len(written) + 1

\* the frame written by the doWork call of this step
Reply == written'[Len(written')]

\* of the frame in the buffer: checksum flag, header length, payload
ReceivedChecksum == Received[2] >= 128
ReceivedHdr == IF ReceivedChecksum THEN 3 ELSE 2
ReceivedPayload == SubSeq(Received, ReceivedHdr + 1, Len(Received))

\* the entry of the list that the command byte in the buffer selects (0: none)
ReceivedEntry == FindCommand(list, Received[1])

\* C13 as claimed: for every complete frame whose command byte is not
\* registered, whatever the registry holds (also nothing), doWork emits exactly
\* FF 81 <command byte> and invokes no handler.
C13_Original ==
    [][(DispatchStep /\ ReceivedEntry = 0) =>
          /\ Reply = <<255, 129, Received[1]>>
          /\ handled' = handled]_vars

BadChecksum ==
    /\ ReceivedChecksum
    /\ Received[3] # SlaveChecksum(Received[1], Received[2], ReceivedPayload)

\* C15 as claimed: a handler is never invoked for a frame whose checksum flag
\* is set and whose checksum byte differs from the computed one; doWork then
\* emits FF 85 <computed checksum>.
C15_Original ==
    [][(DispatchStep /\ BadChecksum) =>
          /\ handled' = handled
          /\ Reply = <<255, 133, SlaveChecksum(Received[1], Received[2],
                                               ReceivedPayload)>>]_vars

\* C15 amended: a handler is never invoked for such a frame; doWork emits
\* FF 85 <computed checksum> when the command is registered and the payload
\* length is accepted (expected length -1 or equal to the number of payload
\* bytes); for a command that is not registered it emits the COMMAND_UNKNOWN
\* error, for a length that is not accepted FF 83 E.
C15_ChecksumVerified ==
    [][(DispatchStep /\ BadChecksum) =>
          /\ handled' = handled
          /\ Len(Reply) = 3
          /\ Reply[1] = 255
          /\ IF ReceivedEntry = 0 THEN Reply[2] = 129
             ELSE IF list[ReceivedEntry].expectedBytes \notin {-1, Len(ReceivedPayload)}
             THEN Reply = <<255, 131, list[ReceivedEntry].expectedBytes>>
             ELSE Reply = <<255, 133, SlaveChecksum(Received[1], Received[2],
                                                    ReceivedPayload)>>]_vars

\* a request whose payload was changed on the line, answered with FF 85
C15_Witness ==
    /\ frame.byte > 3
    /\ Len(written) = 1
    /\ written[1][1] = 255
    /\ written[1][2] = 133
    /\ written[1][3] # frame.bytes[3]
    /\ handled = <<>>

\* C16 as claimed: for a checksummed request with at least one payload byte
\* to a registered command in which one bit of a byte other than the lead
\* byte was inverted, under every interleaving of byte arrival and doWork
\* calls, the slave emits CHECKSUM_ERROR or keeps waiting: it never invokes
\* the handler and never emits a success reply.
C16_Original ==
    (frame.byte >= 2 /\ FindCommand(list, frame.command) # 0) =>
        /\ handled = <<>>
        /\ \A i \in 1..Len(written) : written[i][1] = 255 /\ written[i][2] = 133

\* the buffer holds the request as the master sent it, nothing inverted, and
\* the request is for a registered command that takes any payload and
\* replies nothing
NoopRequestReceived ==
    /\ frame.byte = 0
    /\ Received = frame.bytes
    /\ ReceivedEntry # 0
    /\ list[ReceivedEntry].expectedBytes = -1
    /\ list[ReceivedEntry].kind = "noop"

C18_ChecksumRoundTrip ==
    [][DispatchStep =>
          /\ (frame.byte = 0 /\ frame.checksum /\ Received = frame.bytes) =>
                /\ ~(Reply[1] = 255 /\ Reply[2] = 133)
                /\ (ReceivedEntry # 0 /\
                    list[ReceivedEntry].expectedBytes \in {-1, Len(ReceivedPayload)}) =>
                        Len(handled') = Len(handled) + 1
          /\ (ReceivedChecksum /\ Reply[1] # 255) =>
                /\ Reply[2] >= 128
                /\ receive([kind |-> "reply", bytes |-> Reply], Reply[1] - 128,
                           Expected, TRUE)
                     = Returned(ARDUCOM_OK, ARDUCOM_OK, Len(Reply) - 3, 0)]_vars

\* a checksummed request whose checksum needs the end-around carry came back
\* from the command that returns its payload
C18_Witness ==
    /\ frame.byte = 0
    /\ frame.checksum
    /\ frame.payload = <<253, 0>>
    /\ Len(written) = 1
    /\ written[1][1] = frame.command + 128
    /\ Len(written[1]) = 5

\* the state in which send() and doWork leave the transport and the
\* dispatcher after a reply
Quiescent ==
    /\ status = "SENT"
    /\ data = <<>>
    /\ lastDataSize = -1
    /\ lastReceiveTime = 0

\* C19: after the slave has emitted a reply (success or error), any number of
\* further doWork calls with no new input bytes emit nothing, invoke no
\* handler and leave the dispatcher and transport state unchanged: the call
\* that emits a reply leaves the slave quiescent, and a call in the quiescent
\* state with nothing to read changes nothing.
C19_IdempotentReply ==
    [][DoWorkStep =>
          /\ Len(written') > Len(written) => Quiescent'
          /\ (Quiescent /\ stream = <<>>) =>
                /\ written' = written
                /\ handled' = handled
                /\ UNCHANGED <<list, status, data, lastDataSize, lastReceiveTime>>
                /\ doWorkResult' = ARDUCOM_OK]_vars

\* a reply was emitted and doWork was called again without new input
C19_Witness ==
    /\ Len(written) = 1
    /\ Quiescent
    /\ stream = <<>>
    /\ wire = <<>>
    /\ doWorkResult = ARDUCOM_OK

\* C20: registry uniqueness. The list holds at most one entry per command code
\* and only codes 0..126; addCommand returns COMMANDCODE_INVALID for a code
\* above 126, COMMAND_ALREADY_EXISTS for a code that is in the list, both
\* without changing the list, so that the first registration of a code stays
\* the one dispatched; else it returns OK and puts the command at the head.
C20_RegistryUnique ==
    /\ [](/\ \A i \in 1..Len(list) : list[i].commandCode \in 0..126
          /\ \A i, j \in 1..Len(list) :
                list[i].commandCode = list[j].commandCode => i = j)
    /\ [][\A cmd \in CommandMenu : AddCommand(cmd) =>
            LET known == \E i \in 1..Len(list) : list[i].commandCode = cmd.commandCode
            IN  /\ addResult' = IF cmd.commandCode > 126 THEN 3
                                ELSE IF known THEN 2 ELSE 0
                /\ addResult' # 0 => list' = list
                /\ addResult' = 0 => list' = <<cmd>> \o list
                /\ known =>
                     list'[FindCommand(list', cmd.commandCode)]
                       = list[FindCommand(list, cmd.commandCode)]]_vars

\* a second registration of a code was refused
C20_Witness ==
    /\ addResult = ARDUCOM_COMMAND_ALREADY_EXISTS
    /\ Len(list) = 1
    /\ frame = NoFrame

\* the buffer holds the beginning of a frame, and the stream has nothing to read
PartialFrame ==
    /\ status = "HAS_DATA"
    /\ Len(data) >= 1
    /\ ~FrameComplete(data)
    /\ stream = <<>>

\* C21 as claimed: whenever the buffer holds a partially received frame (one
\* or more bytes) and no byte has arrived for longer than the receive timeout,
\* a doWork call resets the transport to empty / NO_DATA.
C21_Original ==
    PartialFrame =>
        LET r == doWork(list, status, data, lastDataSize, lastReceiveTime, stream, TRUE)
        IN  r.status = "NO_DATA" /\ r.data = <<>>

\* C22: every error reply emitted by the dispatcher is exactly three bytes:
\* FF, the error kind (never 0), the info byte. It carries no checksum byte
\* and does not echo the command code as its lead byte, whether or not the
\* request had the checksum flag set; a reply that is not three bytes with
\* lead byte FF is a success reply, emitted after the handler returned OK.
C22_ErrorReplyShape ==
    [][DispatchStep =>
          /\ doWorkResult' = ARDUCOM_COMMAND_ERROR =>
                /\ Len(Reply) = 3
                /\ Reply[1] = ARDUCOM_ERROR_CODE
                /\ Reply[2] \in {ARDUCOM_COMMAND_UNKNOWN, ARDUCOM_PARAMETER_MISMATCH,
                                 ARDUCOM_CHECKSUM_ERROR, ARDUCOM_FUNCTION_ERROR}
                /\ Reply[1] # Received[1] + 128
          /\ doWorkResult' # ARDUCOM_COMMAND_ERROR =>
                /\ doWorkResult' = ARDUCOM_COMMAND_HANDLED
                /\ Reply[1] = Received[1] + 128
                /\ Len(Reply) = ReceivedHdr + (Reply[2] % 64)
                /\ Len(handled') = Len(handled) + 1]_vars

\* a checksummed request was refused by its handler: FF FE and the info byte
\* of the handler, without checksum
C22_Witness ==
    /\ frame.byte = 0
    /\ frame.checksum
    /\ written = <<<<ARDUCOM_ERROR_CODE, ARDUCOM_FUNCTION_ERROR,
                     ARDUCOM_FTP_NOT_INITIALIZED>>>>
    /\ Len(handled) = 1

(***************************************************************************)
(* Properties of the reply parser and of the arguments of execute          *)
(***************************************************************************)
\* the slave has answered the last poll of process p with an error frame
ErrorFrameReceived(p) ==
    /\ Len(reply[p]) = 3
    /\ reply[p][1] = ARDUCOM_ERROR_CODE
    /\ reply[p][2] # ARDUCOM_OK

\* the slave has answered the last poll of process p with a success frame for
\* the command sent
SuccessFrameReceived(p) ==
    /\ Len(reply[p]) >= 2
    /\ reply[p][1] = Command(p) + 128

\* C23 as claimed: whenever the slave's reply is an error frame, for every
\* value of expected in 0..32, execute does not return successfully: it polls
\* again (NO_DATA only) or raises the error of the kind in the frame, with
\* lastError set to that kind.
C23_Original ==
    \A p \in Masters :
        ErrorFrameReceived(p) =>
            /\ pc[p] \notin {"close", "returned"}
            /\ pc[p] = "poll" => reply[p][2] = ARDUCOM_NO_DATA
            /\ pc[p] \in {"catch", "raised"} =>
                  /\ exc[p] = ExcName(reply[p][2])
                  /\ lastError[p] = reply[p][2]

\* of the success frame the slave has sent: length field, header length and
\* the payload bytes that follow the header
ReplyLength(p) == reply[p][2] % 64
ReplyHdr(p) == IF reply[p][2] >= 128 THEN 3 ELSE 2
ReplyPayload(p) == SubSeq(reply[p], ReplyHdr(p) + 1, Len(reply[p]))

\* C24 as claimed: on a successful execute the caller receives
\* size = min(length, expected) and destBuffer[0..size-1] equal to the first
\* size payload bytes that the slave sent, for every expected in 0..32.
C24_Original ==
    \A p \in Masters :
        (pc[p] \in {"close", "returned"} /\ SuccessFrameReceived(p)) =>
            LET n == Min(ReplyLength(p), par[p].expected)
            IN  /\ size[p] = n
                /\ destBuffer[p] = SubSeq(ReplyPayload(p), 1, n)

\* C25 as claimed: if the checksum flag of a success reply differs from the
\* useChecksum setting of the master, in either direction, execute raises the
\* checksum flag mismatch error and delivers no payload.
C25_Original ==
    \A p \in Masters :
        (SuccessFrameReceived(p) /\ (reply[p][2] >= 128) # UseChecksum(p)) =>
            /\ pc[p] \in {"catch", "raised"}
            /\ exc[p] = "checksum_flag_mismatch"
            /\ size[p] = 0
            /\ destBuffer[p] = <<>>

\* C26 as claimed: when execute raises because the slave replied
\* FUNCTION_ERROR, *errorInfo holds the info byte of the reply; on every other
\* raising path of execute, lock failure and send failure included,
\* *errorInfo is 0.
C26_Original ==
    \A p \in Masters :
        pc[p] = "raised" =>
            errorInfo[p] = IF exc[p] = "FUNCTION_ERROR" THEN reply[p][3] ELSE 0

\* C27: master reply validation, for every value of expected. A reply whose
\* lead byte is 0 makes execute raise with lastError = INVALID_REPLY; a reply
\* whose lead byte is neither 0xFF nor (sent command | 0x80) makes execute
\* raise with lastError = INVALID_RESPONSE; in both cases at once, whatever
\* the retries left, and without a payload delivered. So execute never
\* returns after a reply with such a lead byte: a success reply to a
\* different command is never accepted.
C27_ReplyValidation ==
    /\ [][\A p \in Masters :
            (PollStep(p) /\ outcome'[p] = "reply") =>
                LET lead == reply'[p][1]
                IN  /\ lead = 0 =>
                          /\ pc'[p] = "catch"
                          /\ exc'[p] = "invalid_reply"
                          /\ lastError'[p] = ARDUCOM_INVALID_REPLY
                          /\ size'[p] = 0 /\ destBuffer'[p] = <<>>
                    /\ lead \notin {0, ARDUCOM_ERROR_CODE, Command(p) + 128} =>
                          /\ pc'[p] = "catch"
                          /\ exc'[p] = "invalid_response"
                          /\ lastError'[p] = ARDUCOM_INVALID_RESPONSE
                          /\ size'[p] = 0 /\ destBuffer'[p] = <<>>]_vars
    /\ [](\A p \in Masters :
            (pc[p] \in {"close", "returned"} /\ reply[p] # <<>>) =>
                reply[p][1] \in {ARDUCOM_ERROR_CODE, Command(p) + 128})

\* a success reply to another command, read with a small value of expected,
\* made the call raise INVALID_RESPONSE
C27_Witness ==
    \E p \in Masters :
        /\ pc[p] = "raised"
        /\ exc[p] = "invalid_response"
        /\ lastError[p] = ARDUCOM_INVALID_RESPONSE
        /\ reply[p] = SuccessReply(Command(p) + 1, <<>>, UseChecksum(p))
        /\ par[p].expected = 1

\* C28 (as stated): after an execute call with close = false has succeeded the
\* master still holds the lock, and a following execute call on the same
\* object with the same parameters passes lock() and goes on to send its
\* request.
C28_Original ==
    [][\A p \in Masters :
          (LockStep(p) /\ hasLock[p] /\ semid'[p] # -1) => pc'[p] = "send"]_vars

\* C29 (as stated): whenever execute has raised, lastError is non-zero; after
\* a successful execute lastError is 0.
C29_Original ==
    \A p \in Masters :
        /\ pc[p] = "raised" => lastError[p] # ARDUCOM_OK
        /\ pc[p] = "returned" => lastError[p] = ARDUCOM_OK

\* C30 (as stated): a request with a payload of L bytes is framed and handed
\* to the transport for every L in 0..32 (the transport's maximum command
\* size), and a request with a larger payload is rejected before any byte is
\* written.
C30_Original ==
    \A p \in Masters :
        sendCalls[p] = 1 =>
            LET L == par[p].size
                hdr == IF UseChecksum(p) THEN 3 ELSE 2
                rejected == frameSize[p] > SERIAL_BLOCKSIZE_LIMIT
            IN  /\ L <= SERIAL_BLOCKSIZE_LIMIT =>
                      ~rejected /\ frameSize[p] = L + hdr
                /\ L > SERIAL_BLOCKSIZE_LIMIT =>
                      /\ rejected
                      /\ pc[p] \in {"catch", "raised"}
                      /\ exc[p] = "send"

(***************************************************************************)
(* Properties of the version command                                       *)
(***************************************************************************)
\* the last call of the version command had a mask and a flags byte, and
\* they were the shutdown sentinel (bytes DE AD)
MaskAndFlags == Len(versionCall.payload) >= 2
Sentinel ==
    /\ MaskAndFlags
    /\ versionCall.payload[1] + versionCall.payload[2] * 256 = ARDUCOM_SHUTDOWN

\* C31 (as stated): when the (mask, flags) pair of command 0 is the shutdown
\* sentinel, the only action is the call of the shutdown callback if one is
\* configured: the handler returns its reply and no flag is applied. Flags
\* are applied under the mask only when the pair is not the sentinel, and
\* then the callback is not called.
C31_Original ==
    /\ Sentinel =>
          /\ versionCall.hooked = shutdownHook
          /\ versionCall.returned
    /\ (MaskAndFlags /\ ~Sentinel) =>
          /\ ~versionCall.hooked
          /\ versionCall.returned =
                (setFlags(versionCall.payload[1], versionCall.payload[2], TRUE).mcu
                    = "running")

\* C32: completeness check. A doWork call looks up no command, invokes no
\* handler and emits no reply while the buffer, after the transport has read
\* what arrived, holds fewer than two bytes or fewer than 2 + (C ? 1 : 0) + L
\* bytes, where L is the low six bits and C bit 7 of the second byte.
C32_CompletenessCheck ==
    [][DoWorkStep =>
          LET d == Received
              needed == IF Len(d) < 2 THEN 2
                        ELSE 2 + (IF d[2] >= 128 THEN 1 ELSE 0) + (d[2] % 64)
          IN  Len(d) < needed =>
                /\ written' = written
                /\ handled' = handled
                /\ doWorkResult' \notin {ARDUCOM_COMMAND_HANDLED, ARDUCOM_COMMAND_ERROR}]_vars

\* doWork has looked at a checksummed frame of which only the last byte is
\* missing, and has done nothing
C32_Witness ==
    /\ status = "HAS_DATA"
    /\ Len(data) >= 3
    /\ data[2] >= 128
    /\ Len(data) = 2 + (data[2] % 64)
    /\ lastDataSize = Len(data)
    /\ stream = <<>>
    /\ written = <<>>
    /\ handled = <<>>

(***************************************************************************)
(* Properties of calculateChecksum                                         *)
(***************************************************************************)
\* the sum of the bytes of a sequence
RECURSIVE SumOf(_)
SumOf(bytes) == IF bytes = <<>> THEN 0 ELSE Head(bytes) + SumOf(Tail(bytes))

\* the 8-bit sum with end-around carry of a total: the carries are added back
\* until none is left
RECURSIVE EndAroundCarry(_)
EndAroundCarry(total) ==
    IF total > 255 THEN EndAroundCarry((total % 256) + (total \div 256)) ELSE total

C37_Original ==
    [][DispatchStep =>
          LET L == Received[2] % 64
              i == ReceivedEntry
          IN  /\ Len(handled') > Len(handled) =>
                    Len(handled'[Len(handled')].payload) = L
              /\ i # 0 =>
                    ((Reply[1] = ARDUCOM_ERROR_CODE /\ Reply[2] = ARDUCOM_PARAMETER_MISMATCH)
                        <=> (list[i].expectedBytes >= 0 /\ list[i].expectedBytes # L))]_vars

(***************************************************************************)
(* Properties of the whole call                                            *)
(***************************************************************************)
\* C39: termination of the retry loop. During an execute call
\* transport.request is called at most parameters.retries + 1 times, whatever
\* the replies and timeouts are; and a call that is in its retry loop ends:
\* it returns or raises, provided each transport operation returns or raises.
C39_RetryLoopTerminates ==
    /\ [](\A p \in Masters : requestCalls[p] <= par[p].retries + 1)
    /\ \A p \in Masters : (pc[p] = "poll") ~> (pc[p] \in {"returned", "raised"})

\* a call with the most retries was answered NO_DATA and timed out until no
\* retry was left, and has raised
C39_Witness ==
    \E p \in Masters :
        /\ pc[p] = "raised"
        /\ par[p].retries = MaxRetries
        /\ requestCalls[p] = MaxRetries + 1
        /\ nNoData[p] + nTimeout[p] = MaxRetries + 1
        /\ nTimeout[p] >= 1

(***************************************************************************)
(* Properties of the semaphores over execute and close                     *)
(***************************************************************************)
\* the master is inside unlock(): the cleanup of execute or close() runs
InUnlock(p) == pc[p] \in {"catch", "close", "closing"}

\* C40 as claimed: a master only decrements the semaphore it incremented and
\* still holds, unlock never sleeps on a semaphore whose value is 0, and
\* after close() no semaphore is left incremented by the master.
C40_Original ==
    /\ [][\A p \in Masters :
            decs'[p] > decs[p] => (lockedKey[p] # 0 /\ semid[p] = lockedKey[p])]_vars
    /\ [](\A p \in Masters : InUnlock(p) => ~UnlockBlocks(p))
    /\ [](\A p \in Masters : pc[p] = "closed" => lockedKey[p] = 0)

(***************************************************************************)
(* Properties of the I2C transport                                         *)
(***************************************************************************)
\* the elements of a sequence
Range(s) == {s[i] : i \in 1..Len(s)}

\* C33 as claimed: whatever the interleaving of the interrupt routines with
\* doWork and send, every read of the master gets either a whole reply frame
\* as the dispatcher built it or FF 80 00, and a reply the dispatcher built
\* for the request in the buffer is not lost: once send has returned it is
\* ready in the transport or it has been written to the bus.
C33_Original ==
    /\ \A i \in 1..Len(bus) : bus[i] = noDataResponse \/ bus[i] \in Range(written)
    /\ (i2cSend = NoSend /\ written # <<>>) =>
            \/ written[1] \in Range(bus)
            \/ hardwareI2C.status = "READY_TO_SEND" /\ Valid(hardwareI2C) = written[1]

\* a step of requestEvent: one more read on the bus
RequestStep == Len(bus') = Len(bus) + 1

\* C35 as claimed: a read that arrives while the status is not READY_TO_SEND
\* is answered with FF 80 00 and changes nothing in the transport; the first
\* read after the dispatcher has built the reply and send has returned gets
\* the whole reply, and the reads after that one get FF 80 00.
C35_Original ==
    [][RequestStep =>
        /\ hardwareI2C.status # "READY_TO_SEND" =>
              /\ bus'[Len(bus')] = noDataResponse
              /\ hardwareI2C' = hardwareI2C
        /\ (i2cSend = NoSend /\ written # <<>>) =>
              bus'[Len(bus')] = IF written[1] \in Range(bus) THEN noDataResponse
                                ELSE written[1]]_vars

\* C34 as claimed: a whole request that is in the receive buffer when the
\* main loop is between two calls of doWork is dispatched by a later call
\* and answered with one reply frame, unless the master writes again before.
C34_Original ==
    /\ [](Len(written) <= 1)
    /\ \A f \in I2CComplete :
          (/\ frame = f
           /\ hardwareI2C.status = "HAS_DATA"
           /\ Valid(hardwareI2C) = f.bytes
           /\ i2cSend = NoSend
           /\ written = <<>>)
              ~> (frame # f \/ hardwareI2C.status = "TOO_MUCH_DATA" \/ Len(written) = 1)

(***************************************************************************)
(* Properties of the receive buffer                                        *)
(***************************************************************************)
\* C38 as claimed: the transports write received bytes at the indexes
\* 0..ARDUCOM_BUFFERSIZE-1 of data only and size never exceeds
\* ARDUCOM_BUFFERSIZE, whatever the length of the input (stream transport,
\* hardware I2C transport, Ethernet transport).
C38_Original ==
    /\ Len(data) <= ARDUCOM_BUFFERSIZE
    /\ hardwareI2C.size <= ARDUCOM_BUFFERSIZE
    /\ topIndex <= ARDUCOM_BUFFERSIZE - 1
    /\ ethernet.size <= ARDUCOM_BUFFERSIZE

====
